---- MODULE Spec2Model ----
(***************************************************************************)
(* Succinct trees (BP and LOUDS facades) over the Range-Min-Max structure  *)
(* of src/src/common/min_max.rs.                                           *)
(*                                                                         *)
(* Conventions.  Rust vectors are 0-based; a bit vector is a sequence over *)
(* {0,1} read through Bit(B, i), the heap a sequence of node records read  *)
(* through Node(heap, k).  A u64/usize value is written as its             *)
(* two's-complement i64 reading, so -k stands for 2^64 - k; the places     *)
(* where the unsigned reading matters (comparisons, indexing) say so.      *)
(* A call's outcome is a record [tag, val]: tag "Ok" with the value, the   *)
(* name of the error variant returned, "Panic" when the call aborts, or    *)
(* "Hang" when it enters a loop that changes nothing and never exits.      *)
(* An Option is the same record with tag "None" for None; a bool result is *)
(* written 1 for true and 0 for false.  RankSelect (crate bio) and the     *)
(* reference tree (crate id_tree) are not part of the sources: they are    *)
(* modelled after their contract in spec.md and the facades' unit tests.   *)
(***************************************************************************)
EXTENDS Integers, Sequences, FiniteSets, TLC

VARIABLES obj, last

vars == <<obj, last>>

(* ------------------------------ bounds -------------------------------- *)

\* longest arbitrary bit sequence handed to a constructor
MaxLen == 7
\* largest number of nodes of a well-formed parenthesis sequence handed to a constructor
MaxNodes == 5
\* largest block size handed to MinMax::new
MaxBlockSize == 4
\* search offsets range over -MaxDiff..MaxDiff
MaxDiff == 2

\* largest number of nodes of a reference tree handed to from_id_tree
MaxTreeNodes == 4

(* --------------------------- program constants ------------------------ *)

\* block size the BP facade passes to MinMax::new
BP_BLOCK_SIZE == 1024
\* number bwd_search returns when it has found nothing
BWD_NOT_FOUND == 10000000

(* ------------------------------ helpers ------------------------------- *)

Bit(B, i) == B[i + 1]

Node(heap, k) == heap[k + 1]

Ok(v) == [tag |-> "Ok", val |-> v]

Err(e) == [tag |-> e, val |-> 0]

Panic == [tag |-> "Panic", val |-> 0]

Hang == [tag |-> "Hang", val |-> 0]

Abs(x) == IF x < 0 THEN -x ELSE x

Min2(a, b) == IF a < b THEN a ELSE b

Max2(a, b) == IF a > b THEN a ELSE b

\* +1 for an opening bit, -1 for a closing bit
Step(B, i) == IF Bit(B, i) = 1 THEN 1 ELSE -1

(* ----------------- the excess function of the data model -------------- *)

\* E(i) = #ones - #zeros in B[0..=i]; E(-1) = 0
RECURSIVE E(_, _)
E(B, i) == IF i < 0 THEN 0 ELSE E(B, i - 1) + Step(B, i)

\* the excess invariant of a valid balanced-parenthesis encoding
ExcessInvariant(B) ==
    /\ \A i \in 0 .. Len(B) - 2 : E(B, i) >= 1
    /\ E(B, Len(B) - 1) = 0

BitSeqs(n) == [1 .. n -> {0, 1}]

\* the bit sequences a caller hands to the constructors
InputSeqs ==
    UNION {BitSeqs(n) : n \in 0 .. MaxLen}
    \cup {B \in UNION {BitSeqs(2 * n) : n \in 1 .. MaxNodes} : ExcessInvariant(B)}

(* -------------------- SuccinctTree::is_valid -------------------------- *)

RECURSIVE is_valid_loop(_, _, _)
is_valid_loop(bitvec, i, excess) ==
    IF i >= Len(bitvec) THEN excess = 0
    ELSE LET e == excess + Step(bitvec, i) IN
         IF e = 0 /\ i < Len(bitvec) - 1 THEN FALSE
         ELSE is_valid_loop(bitvec, i + 1, e)

is_valid(bitvec) == is_valid_loop(bitvec, 0, 0)

(* --------------------------- MinMax::new ------------------------------ *)

DefaultNode ==
    [excess |-> 0, min_excess |-> 0, number_min_excess |-> 0,
     max_excess |-> 0, bits_for_node |-> 0]

set_values(excess, min_excess, number_min_excess, max_excess, no_of_bits_for_node) ==
    [excess |-> excess, min_excess |-> min_excess,
     number_min_excess |-> number_min_excess,
     max_excess |-> max_excess, bits_for_node |-> no_of_bits_for_node]

number_of_blocks(bits_len, block_size) ==
    IF bits_len % block_size # 0
    THEN bits_len \div block_size + 1
    ELSE bits_len \div block_size

\* (n as f64).log2().ceil() as u32 : log2(0) is -inf, which the cast takes to 0
CeilLog2(n) ==
    IF n = 0 THEN 0
    ELSE CHOOSE k \in 0 .. n : 2 ^ k >= n /\ \A j \in 0 .. k - 1 : 2 ^ j < n

\* mutant of max_blocks: the next power of two strictly above n
max_blocks_strictly_above(n) == 2 ^ CeilLog2(n + 1)

max_blocks(n) == 2 ^ CeilLog2(n)

heap_size(n) == max_blocks(n) * 2 - 1

\* variant of LeafStep: a new minimum does not start the count of the
\* positions attaining it afresh
LeafStep_keeps_min_count(bits, block_size, bit_index, st) ==
    LET a == IF st.number_min_excess = 0
             THEN IF Bit(bits, bit_index) = 1
                  THEN [st EXCEPT !.begin_of_block = bit_index, !.excess = 1,
                                  !.min_excess = 1, !.number_min_excess = 1,
                                  !.max_excess = 1]
                  ELSE [st EXCEPT !.begin_of_block = bit_index, !.excess = -1,
                                  !.min_excess = -1, !.number_min_excess = 1,
                                  !.max_excess = -1]
             ELSE IF Bit(bits, bit_index) = 0
                  THEN LET e == st.excess - 1 IN
                       IF e = st.min_excess
                       THEN [st EXCEPT !.excess = e,
                                       !.number_min_excess = st.number_min_excess + 1]
                       ELSE IF e < st.min_excess
                            THEN [st EXCEPT !.excess = e, !.min_excess = e]
                            ELSE [st EXCEPT !.excess = e]
                  ELSE LET e == st.excess + 1 IN
                       IF e > st.max_excess
                       THEN [st EXCEPT !.excess = e, !.max_excess = e]
                       ELSE [st EXCEPT !.excess = e]
    IN  IF (bit_index + 1) % block_size = 0 \/ bit_index + 1 = Len(bits)
        THEN [a EXCEPT
                 !.heap = [a.heap EXCEPT ![a.heap_index + 1] =
                              set_values(a.excess, a.min_excess, a.number_min_excess,
                                         a.max_excess, bit_index - a.begin_of_block + 1)],
                 !.heap_index = a.heap_index + 1,
                 !.excess = 0, !.min_excess = 0, !.number_min_excess = 0,
                 !.max_excess = 0]
        ELSE a

\* one pass of the loop over bit_index: st carries the loop's variables
LeafStep(bits, block_size, bit_index, st) ==
    LET a == IF st.number_min_excess = 0
             THEN IF Bit(bits, bit_index) = 1
                  THEN [st EXCEPT !.begin_of_block = bit_index, !.excess = 1,
                                  !.min_excess = 1, !.number_min_excess = 1,
                                  !.max_excess = 1]
                  ELSE [st EXCEPT !.begin_of_block = bit_index, !.excess = -1,
                                  !.min_excess = -1, !.number_min_excess = 1,
                                  !.max_excess = -1]
             ELSE IF Bit(bits, bit_index) = 0
                  THEN LET e == st.excess - 1 IN
                       IF e = st.min_excess
                       THEN [st EXCEPT !.excess = e,
                                       !.number_min_excess = st.number_min_excess + 1]
                       ELSE IF e < st.min_excess
                            THEN [st EXCEPT !.excess = e, !.min_excess = e,
                                            !.number_min_excess = 1]
                            ELSE [st EXCEPT !.excess = e]
                  ELSE LET e == st.excess + 1 IN
                       IF e > st.max_excess
                       THEN [st EXCEPT !.excess = e, !.max_excess = e]
                       ELSE [st EXCEPT !.excess = e]
    IN  IF (bit_index + 1) % block_size = 0 \/ bit_index + 1 = Len(bits)
        THEN [a EXCEPT
                 !.heap = [a.heap EXCEPT ![a.heap_index + 1] =
                              set_values(a.excess, a.min_excess, a.number_min_excess,
                                         a.max_excess, bit_index - a.begin_of_block + 1)],
                 !.heap_index = a.heap_index + 1,
                 !.excess = 0, !.min_excess = 0, !.number_min_excess = 0,
                 !.max_excess = 0]
        ELSE a

RECURSIVE LeafLoop(_, _, _, _)
LeafLoop(bits, block_size, bit_index, st) ==
    IF bit_index >= Len(bits) THEN st.heap
    ELSE LeafLoop(bits, block_size, bit_index + 1,
                  LeafStep(bits, block_size, bit_index, st))

\* mutant of Combine: the maximum of the right child is taken as it stands,
\* not shifted by the excess of the left child
Combine_max_not_shifted(heap, index) ==
    LET l == Node(heap, 2 * index + 1)
        r == Node(heap, 2 * index + 2)
    IN  IF r.number_min_excess > 0
        THEN set_values(
                 l.excess + r.excess,
                 Min2(l.excess + r.min_excess, l.min_excess),
                 IF l.excess + r.min_excess = l.min_excess
                 THEN l.number_min_excess + r.number_min_excess
                 ELSE IF l.excess + r.min_excess < l.min_excess
                      THEN r.number_min_excess
                      ELSE l.number_min_excess,
                 Max2(r.max_excess, l.max_excess),
                 l.bits_for_node + r.bits_for_node)
        ELSE set_values(l.excess, l.min_excess, l.number_min_excess,
                        l.max_excess, l.bits_for_node)

\* the node written at `index` from its two children
Combine(heap, index) ==
    LET l == Node(heap, 2 * index + 1)
        r == Node(heap, 2 * index + 2)
    IN  IF r.number_min_excess > 0
        THEN set_values(
                 l.excess + r.excess,
                 Min2(l.excess + r.min_excess, l.min_excess),
                 IF l.excess + r.min_excess = l.min_excess
                 THEN l.number_min_excess + r.number_min_excess
                 ELSE IF l.excess + r.min_excess < l.min_excess
                      THEN r.number_min_excess
                      ELSE l.number_min_excess,
                 Max2(l.excess + r.max_excess, l.max_excess),
                 l.bits_for_node + r.bits_for_node)
        ELSE set_values(l.excess, l.min_excess, l.number_min_excess,
                        l.max_excess, l.bits_for_node)

RECURSIVE FoldLoop(_, _)
FoldLoop(heap, rev) ==
    IF rev >= Len(heap) \div 2 THEN heap
    ELSE LET index == Len(heap) \div 2 - 1 - rev IN
         FoldLoop([heap EXCEPT ![index + 1] = Combine(heap, index)], rev + 1)

MinMax_new(bits, block_size) ==
    LET nb == number_of_blocks(Len(bits), block_size)
        hs == heap_size(nb)
        st0 == [excess |-> 0, min_excess |-> 0, number_min_excess |-> 0,
                max_excess |-> 0, begin_of_block |-> 0,
                heap |-> [k \in 1 .. hs |-> DefaultNode],
                heap_index |-> max_blocks(nb) - 1]
        leaves == LeafLoop(bits, block_size, 0, st0)
    IN  [bits_len |-> Len(bits), bits |-> bits, block_size |-> block_size,
         heap |-> IF hs # 1 THEN FoldLoop(leaves, 0) ELSE leaves]

(* -------------------------- MinMax::excess ---------------------------- *)

\* mutant of ExcessWalk: the sibling's excess is added when the node is a
\* left child instead of a right child
RECURSIVE ExcessWalk_wrong_side(_, _, _)
ExcessWalk_wrong_side(heap, heap_number, pre_excess) ==
    IF heap_number > 0
    THEN IF heap_number % 2 = 1
         THEN ExcessWalk_wrong_side(heap, (heap_number - 1) \div 2,
                         pre_excess + Node(heap, 2 * ((heap_number - 1) \div 2) + 1).excess)
         ELSE ExcessWalk_wrong_side(heap, (heap_number - 1) \div 2, pre_excess)
    ELSE pre_excess

\* the walk from the leaf of the block to the root, adding the excess of
\* every left sibling passed
RECURSIVE ExcessWalk(_, _, _)
ExcessWalk(heap, heap_number, pre_excess) ==
    IF heap_number > 0
    THEN IF heap_number % 2 = 0
         THEN ExcessWalk(heap, (heap_number - 1) \div 2,
                         pre_excess + Node(heap, 2 * ((heap_number - 1) \div 2) + 1).excess)
         ELSE ExcessWalk(heap, (heap_number - 1) \div 2, pre_excess)
    ELSE pre_excess

\* the scan for k in (block_number * block_size)..=index
RECURSIVE BlockExcess(_, _, _)
BlockExcess(bits, k, index) ==
    IF k > index THEN 0 ELSE Step(bits, k) + BlockExcess(bits, k + 1, index)

\* Ok((pre_excess + block_excess) as u64): a negative sum is the u64 2^64 - |sum|
MinMax_excess(mm, index) ==
    IF index >= Len(mm.bits) THEN Err("NotANodeError")
    ELSE LET block_number == index \div mm.block_size IN
         Ok(ExcessWalk(mm.heap, block_number + Len(mm.heap) \div 2, 0)
            + BlockExcess(mm.bits, block_number * mm.block_size, index))

(* ------------------------ MinMax::fwd_search -------------------------- *)

\* the scan of the block of index: [panic, found, position, current_excess]
RECURSIVE FwdScan(_, _, _, _, _)
FwdScan(bits, position_in_block, end_of_block, current_excess, diff) ==
    IF position_in_block < end_of_block - 1
    THEN LET p == position_in_block + 1 IN
         IF p >= Len(bits)
         THEN [panic |-> TRUE, found |-> FALSE, position |-> p,
               current_excess |-> current_excess]
         ELSE LET ce == current_excess + Step(bits, p) IN
              IF ce = diff - 1
              THEN [panic |-> FALSE, found |-> TRUE, position |-> p,
                    current_excess |-> ce]
              ELSE FwdScan(bits, p, end_of_block, ce, diff)
    ELSE [panic |-> FALSE, found |-> FALSE, position |-> position_in_block,
          current_excess |-> current_excess]

\* mutant of FwdBottomUp: a right sibling that is passed over does not take
\* its excess off the residual target
RECURSIVE FwdBottomUp_keeps_diff(_, _, _)
FwdBottomUp_keeps_diff(heap, current_node, current_diff) ==
    IF current_node # 0
    THEN IF current_node % 2 = 0
         THEN FwdBottomUp_keeps_diff(heap, (current_node - 1) \div 2, current_diff)
         ELSE LET sib == current_node + 1 IN
              IF /\ current_diff <= Node(heap, sib).max_excess
                 /\ current_diff >= Node(heap, sib).min_excess
              THEN [node |-> sib, diff |-> current_diff, top_down |-> TRUE]
              ELSE FwdBottomUp_keeps_diff(heap, (sib - 1) \div 2, current_diff)
    ELSE [node |-> 0, diff |-> current_diff, top_down |-> FALSE]

\* the bottom-up search: [node, diff, top_down]
RECURSIVE FwdBottomUp(_, _, _)
FwdBottomUp(heap, current_node, current_diff) ==
    IF current_node # 0
    THEN IF current_node % 2 = 0
         THEN FwdBottomUp(heap, (current_node - 1) \div 2, current_diff)
         ELSE LET sib == current_node + 1 IN
              IF /\ current_diff <= Node(heap, sib).max_excess
                 /\ current_diff >= Node(heap, sib).min_excess
              THEN [node |-> sib, diff |-> current_diff, top_down |-> TRUE]
              ELSE FwdBottomUp(heap, (sib - 1) \div 2,
                               current_diff - Node(heap, sib).excess)
    ELSE [node |-> 0, diff |-> current_diff, top_down |-> FALSE]

\* mutant of FwdTopDown: the descent into the right child does not take the
\* excess of the left child off the residual target
RECURSIVE FwdTopDown_keeps_diff(_, _, _)
FwdTopDown_keeps_diff(heap, current_node, current_diff) ==
    IF current_node >= Len(heap) \div 2
    THEN [node |-> current_node, diff |-> current_diff]
    ELSE LET left_child == 2 * current_node + 1
             right_child == 2 * current_node + 2
         IN  IF /\ current_diff <= Node(heap, left_child).max_excess
                /\ current_diff >= Node(heap, left_child).min_excess
             THEN FwdTopDown_keeps_diff(heap, left_child, current_diff)
             ELSE FwdTopDown_keeps_diff(heap, right_child, current_diff)

\* the top-down search: [node, diff] of the leaf reached
RECURSIVE FwdTopDown(_, _, _)
FwdTopDown(heap, current_node, current_diff) ==
    IF current_node >= Len(heap) \div 2
    THEN [node |-> current_node, diff |-> current_diff]
    ELSE LET left_child == 2 * current_node + 1
             right_child == 2 * current_node + 2
         IN  IF /\ current_diff <= Node(heap, left_child).max_excess
                /\ current_diff >= Node(heap, left_child).min_excess
             THEN FwdTopDown(heap, left_child, current_diff)
             ELSE FwdTopDown(heap, right_child,
                             current_diff - Node(heap, left_child).excess)

\* the scan of the target block; reaching its end returns that position
RECURSIVE FwdBlock(_, _, _, _)
FwdBlock(bits, position_in_block, end_of_target_block, current_diff) ==
    IF position_in_block < end_of_target_block
    THEN IF position_in_block >= Len(bits) THEN Panic
         ELSE LET cd == current_diff - Step(bits, position_in_block) IN
              IF cd = 0 THEN Ok(position_in_block)
              ELSE FwdBlock(bits, position_in_block + 1, end_of_target_block, cd)
    ELSE Ok(position_in_block)

\* overflow_checks: the build panics on integer overflow (debug profile);
\* otherwise the arithmetic wraps (release profile)
MinMax_fwd_search(mm, index, diff, overflow_checks) ==
    LET s == mm.block_size
        half == Len(mm.heap) \div 2
        scan == FwdScan(mm.bits, index, (index \div s) * s + s, 0, diff)
        up == FwdBottomUp(mm.heap, half + index \div s, diff - 1 - scan.current_excess)
        down == FwdTopDown(mm.heap, up.node, up.diff)
    IN  IF scan.panic THEN Panic
        ELSE IF scan.found THEN Ok(scan.position)
        ELSE IF up.top_down
             THEN FwdBlock(mm.bits, (down.node - half) * s,
                           (down.node - half) * s + s, down.diff)
             \* the root was reached: (0 - heap.len() / 2) as u64 * block_size
             ELSE IF half > 0 /\ overflow_checks THEN Panic
             ELSE Ok((0 - half) * s)

MinMax_find_close(mm, index, overflow_checks) ==
    MinMax_fwd_search(mm, index, 0, overflow_checks)

(* ------------------------ MinMax::bwd_search -------------------------- *)

\* the scan of the block of index: [found, position, current_excess]
RECURSIVE BwdScan(_, _, _, _, _)
BwdScan(bits, position, begin_of_block, current_excess, target) ==
    IF position > begin_of_block
    THEN LET ce == current_excess - Step(bits, position) IN
         IF ce = target
         THEN [found |-> TRUE, position |-> position - 1, current_excess |-> ce]
         ELSE BwdScan(bits, position - 1, begin_of_block, ce, target)
    ELSE [found |-> FALSE, position |-> position, current_excess |-> current_excess]

\* the bottom-up loop: [node, look_for, top_down]
RECURSIVE BwdBottomUp(_, _, _)
BwdBottomUp(heap, current_node, look_for) ==
    IF current_node > 0
    THEN IF current_node % 2 = 0
         THEN LET sib == Node(heap, current_node - 1) IN
              IF sib.max_excess >= -1 * look_for /\ sib.min_excess <= -1 * look_for
              THEN [node |-> current_node - 1, look_for |-> look_for, top_down |-> TRUE]
              ELSE BwdBottomUp(heap, (current_node - 1) \div 2, look_for + sib.excess)
         ELSE BwdBottomUp(heap, (current_node - 1) \div 2, look_for)
    ELSE [node |-> current_node, look_for |-> look_for, top_down |-> FALSE]

\* the top-down loop: [hang, node]; when neither child is taken the loop
\* repeats with nothing changed
RECURSIVE BwdTopDown(_, _, _)
BwdTopDown(heap, current_node, look_for) ==
    IF current_node >= Len(heap) \div 2
    THEN [hang |-> FALSE, node |-> current_node]
    ELSE LET l == Node(heap, current_node * 2 + 1)
             r == Node(heap, current_node * 2 + 2)
         IN  IF r.max_excess - r.min_excess >= Abs(look_for)
             THEN BwdTopDown(heap, current_node * 2 + 2, look_for)
             ELSE IF l.max_excess - l.min_excess >= Abs(look_for)
                  THEN BwdTopDown(heap, current_node * 2 + 1, look_for)
                  ELSE [hang |-> TRUE, node |-> current_node]

\* the scan of the target block.  position is a u64: `position >= begin_of_block`
\* holds of every wrapped (negative) position, and bits[position + 1] is out of
\* bounds unless position + 1 is in 0 .. len - 1
RECURSIVE BwdBlock(_, _, _, _, _)
BwdBlock(bits, position, begin_of_block, look_for, overflow_checks) ==
    IF position < 0 \/ position >= begin_of_block
    THEN IF position + 1 < 0 \/ position + 1 >= Len(bits) THEN Panic
         ELSE LET lf == look_for + Step(bits, position + 1) IN
              IF lf = 0 THEN Ok(position)
              ELSE IF position = 0 /\ overflow_checks THEN Panic
              ELSE BwdBlock(bits, position - 1, begin_of_block, lf, overflow_checks)
    ELSE Ok(BWD_NOT_FOUND)

\* index < len(bits): excess(index).unwrap() succeeds
MinMax_bwd_search(mm, index, diff, overflow_checks) ==
    LET s == mm.block_size
        half == Len(mm.heap) \div 2
        block_no == index \div s
        index_excess == MinMax_excess(mm, index).val
        scan == BwdScan(mm.bits, index, block_no * s, index_excess, index_excess + diff)
        up == BwdBottomUp(mm.heap, half + block_no,
                          diff + index_excess - scan.current_excess)
        down == BwdTopDown(mm.heap, up.node, up.look_for)
    IN  IF scan.found THEN Ok(scan.position)
        ELSE IF ~up.top_down THEN Ok(BWD_NOT_FOUND)
        ELSE IF down.hang THEN Hang
        ELSE BwdBlock(mm.bits, (down.node - half) * s + s - 1, (down.node - half) * s,
                      up.look_for, overflow_checks)

MinMax_enclose(mm, index, overflow_checks) ==
    MinMax_bwd_search(mm, index, 1, overflow_checks)

(* ----------------------- MinMax::rank / select ------------------------ *)

\* (bits_for_node + excess) / 2
ones_for_node(heap, heap_index) ==
    (Node(heap, heap_index).bits_for_node + Node(heap, heap_index).excess) \div 2

\* the scan for k in begin_of_block..=index counting the ones
RECURSIVE RankScan(_, _, _)
RankScan(bits, k, index) ==
    IF k > index THEN 0 ELSE Bit(bits, k) + RankScan(bits, k + 1, index)

\* the walk from the leaf to the root: coming up from a right child, the
\* ones of the left sibling are added
RECURSIVE RankWalk(_, _, _)
RankWalk(heap, current_node, rank) ==
    IF current_node > 0
    THEN LET parent == (current_node - 1) \div 2 IN
         IF 2 * parent + 1 # current_node
         THEN RankWalk(heap, parent, rank + ones_for_node(heap, 2 * parent + 1))
         ELSE RankWalk(heap, parent, rank)
    ELSE rank

MinMax_rank_1(mm, index) ==
    IF index >= Len(mm.bits) THEN Err("NotANodeError")
    ELSE LET block_no == index \div mm.block_size
             begin_of_block == block_no * mm.block_size
         IN  Ok(RankWalk(mm.heap, Len(mm.heap) \div 2 + block_no,
                         RankScan(mm.bits, begin_of_block, index)))

\* index - rank_1(index).unwrap() is a u64 subtraction: when the rank is
\* index + 1 it underflows, and the wrapped number read as i64 is negative
MinMax_rank_0(mm, index, overflow_checks) ==
    LET rank == MinMax_rank_1(mm, index)
    IN  IF rank.tag # "Ok" THEN Panic
        ELSE IF rank.val > index
             THEN (IF overflow_checks THEN Panic ELSE Err("NotANodeError"))
        ELSE Ok(index - rank.val + 1)

\* the scan of a leaf's block in select_1_recursive (b = 1) and
\* select_0_recursive (b = 0): index moves to every bit equal to b while
\* remaining_rank is positive
RECURSIVE SelectScan(_, _, _, _, _, _)
SelectScan(bits, b, bits_index, end, remaining_rank, index) ==
    IF bits_index >= end THEN index
    ELSE IF Bit(bits, bits_index) = b /\ remaining_rank > 0
         THEN SelectScan(bits, b, bits_index + 1, end, remaining_rank - 1, bits_index)
         ELSE SelectScan(bits, b, bits_index + 1, end, remaining_rank, index)

\* number of bits equal to b below a heap node
bits_of_value_for_node(heap, b, heap_index) ==
    IF b = 1 THEN ones_for_node(heap, heap_index)
    ELSE Node(heap, heap_index).bits_for_node - ones_for_node(heap, heap_index)

\* select_1_recursive (b = 1) and select_0_recursive (b = 0)
RECURSIVE SelectRecursive(_, _, _, _)
SelectRecursive(mm, b, rank, heap_index) ==
    IF heap_index >= Len(mm.heap) \div 2
    THEN LET block_no == heap_index - Len(mm.heap) \div 2
             begin_of_block == block_no * mm.block_size
         IN  SelectScan(mm.bits, b, begin_of_block,
                        begin_of_block + Node(mm.heap, heap_index).bits_for_node,
                        rank, begin_of_block)
    ELSE LET count == bits_of_value_for_node(mm.heap, b, 2 * heap_index + 1)
         IN  IF count >= rank
             THEN SelectRecursive(mm, b, rank, 2 * heap_index + 1)
             ELSE SelectRecursive(mm, b, rank - count, 2 * heap_index + 2)

MinMax_select_1(mm, rank) ==
    IF rank > mm.bits_len \div 2 THEN Err("NotANodeError")
    ELSE Ok(SelectRecursive(mm, 1, rank, 0))

MinMax_select_0(mm, rank) ==
    IF rank > mm.bits_len \div 2 THEN Err("NotANodeError")
    ELSE Ok(SelectRecursive(mm, 0, rank, 0))

(* ----------------------------- RankSelect ----------------------------- *)

\* Option::None
None == [tag |-> "None", val |-> 0]

\* number of bits equal to b in B[0..=i]
RECURSIVE CountUpTo(_, _, _)
CountUpTo(B, b, i) ==
    IF i < 0 THEN 0
    ELSE CountUpTo(B, b, i - 1) + (IF Bit(B, i) = b THEN 1 ELSE 0)

\* rank_b(i): the count includes position i; none past the end
RankSelect_rank(B, b, i) ==
    IF i >= Len(B) THEN None ELSE Ok(CountUpTo(B, b, i))

RankSelect_rank_1(B, i) == RankSelect_rank(B, 1, i)

RankSelect_rank_0(B, i) == RankSelect_rank(B, 0, i)

\* select_b(k): the smallest position whose rank_b is k, none when there is
\* no such position.  For k >= 1 this is the position of the k-th b.  For
\* k = 0 it is position 0 when B[0] is not b and none otherwise: the unit
\* tests of the facades fix both (LOUDS parent(3) = 1 and child_rank(9) = 2
\* need select_0(0) = 0 on a sequence starting with 1; BP pre_select(0) is
\* none on a sequence starting with 1).
RankSelect_select(B, b, k) ==
    IF \E i \in 0 .. Len(B) - 1 : CountUpTo(B, b, i) = k
    THEN Ok(CHOOSE i \in 0 .. Len(B) - 1 :
                /\ CountUpTo(B, b, i) = k
                /\ \A j \in 0 .. i - 1 : CountUpTo(B, b, j) # k)
    ELSE None

RankSelect_select_1(B, k) == RankSelect_select(B, 1, k)

RankSelect_select_0(B, k) == RankSelect_select(B, 0, k)

(* ------------------------------ id_tree ------------------------------- *)

\* A reference tree is an arena: node ids 1..n in insertion order, parents[v]
\* the id of the parent of v (0 for the root, which is inserted first), data[v]
\* the label of v.  The children of a node are kept in insertion order.
Labels == {1, 2}

ParentSeqs(n) ==
    {p \in [1 .. n -> 0 .. n - 1] : \A v \in 1 .. n :
        IF v = 1 THEN p[v] = 0 ELSE 1 <= p[v] /\ p[v] < v}

IdTrees ==
    UNION {{[parents |-> p, data |-> d] : p \in ParentSeqs(n), d \in [1 .. n -> Labels]}
           : n \in 0 .. MaxTreeNodes}

Tree_nodes(tree) == 1 .. Len(tree.parents)

\* Tree::height is 0 exactly for the tree without nodes
Tree_is_empty(tree) == Len(tree.parents) = 0

\* Node::children: the ids of the children in insertion order
Tree_children(tree, v) ==
    SelectSeq([i \in 1 .. Len(tree.parents) |-> i], LAMBDA c : tree.parents[c] = v)

\* Tree::traverse_pre_order: a stack of nodes still to visit
RECURSIVE PreOrderWalk(_, _, _)
PreOrderWalk(tree, stack, out) ==
    IF stack = <<>> THEN out
    ELSE PreOrderWalk(tree, Tree_children(tree, Head(stack)) \o Tail(stack),
                      Append(out, Head(stack)))

Tree_traverse_pre_order(tree) == PreOrderWalk(tree, <<1>>, <<>>)

\* Tree::traverse_level_order: a queue of nodes still to visit
RECURSIVE LevelOrderWalk(_, _, _)
LevelOrderWalk(tree, queue, out) ==
    IF queue = <<>> THEN out
    ELSE LevelOrderWalk(tree, Tail(queue) \o Tree_children(tree, Head(queue)),
                        Append(out, Head(queue)))

Tree_traverse_level_order(tree) == LevelOrderWalk(tree, <<1>>, <<>>)

\* the labels of the nodes in the order of a traversal
DataOf(tree, order) == [k \in 1 .. Len(order) |-> tree.data[order[k]]]

(* ------------------------------ BPTree -------------------------------- *)

\* the facade keeps the bits (in rankselect), the MinMax over them and the labels
BPTree_from_bitvec(bitvec) ==
    IF ~is_valid(bitvec) THEN Err("InvalidBitvecError") ELSE Ok(0)

BPTree_is_valid_index(t, index) ==
    IF index >= Len(t.bits) THEN Err("NotANodeError") ELSE Ok(1)

\* `?` hands every outcome but Ok back to the caller
BPTree_parent(t, index, overflow_checks) ==
    IF BPTree_is_valid_index(t, index).tag # "Ok" THEN BPTree_is_valid_index(t, index)
    ELSE IF index = 0 THEN Err("HasNoParentError")
    ELSE MinMax_enclose(t.minmax, index, overflow_checks)

BPTree_next_sibling(t, index, overflow_checks) ==
    LET parent_a == BPTree_parent(t, index, overflow_checks)
        close == MinMax_find_close(t.minmax, index, overflow_checks)
        sibling == close.val + 1
        parent_b == BPTree_parent(t, sibling, overflow_checks)
    IN  IF parent_a.tag # "Ok" THEN parent_a
        ELSE IF close.tag # "Ok" THEN close
        ELSE IF parent_b.tag # "Ok" THEN parent_b
        ELSE IF parent_a.val = parent_b.val THEN Ok(sibling)
        ELSE Err("NoSiblingError")

BPTree_depth(t, index) ==
    IF BPTree_is_valid_index(t, index).tag # "Ok" THEN BPTree_is_valid_index(t, index)
    ELSE MinMax_excess(t.minmax, index)

\* variant: is_leaf reads the bit of the node itself
BPTree_is_leaf_reads_own_bit(t, index) ==
    IF BPTree_is_valid_index(t, index).tag # "Ok" THEN BPTree_is_valid_index(t, index)
    ELSE Ok(1 - Bit(t.bits, index))

\* a bool is written 1 for true and 0 for false; get_bit aborts on a position
\* past the end
BPTree_is_leaf(t, index) ==
    IF BPTree_is_valid_index(t, index).tag # "Ok" THEN BPTree_is_valid_index(t, index)
    ELSE IF index + 1 >= Len(t.bits) THEN Panic
    ELSE Ok(1 - Bit(t.bits, index + 1))

BPTree_first_child(t, index) ==
    LET leaf == BPTree_is_leaf(t, index)
    IN  IF leaf.tag # "Ok" THEN leaf
        ELSE IF leaf.val = 1 THEN Err("NotAParentError")
        ELSE Ok(index + 1)

\* variant: a node is not its own ancestor
BPTree_ancestor_strict(t, x, y, overflow_checks) ==
    LET close == MinMax_find_close(t.minmax, x, overflow_checks)
    IN  IF BPTree_is_valid_index(t, x).tag # "Ok" THEN BPTree_is_valid_index(t, x)
        ELSE IF BPTree_is_valid_index(t, y).tag # "Ok" THEN BPTree_is_valid_index(t, y)
        ELSE IF ~(x < y) THEN Ok(0)
        ELSE IF close.tag # "Ok" THEN close
        ELSE Ok(IF y <= close.val THEN 1 ELSE 0)

\* && evaluates find_close only when x <= y
BPTree_ancestor(t, x, y, overflow_checks) ==
    LET close == MinMax_find_close(t.minmax, x, overflow_checks)
    IN  IF BPTree_is_valid_index(t, x).tag # "Ok" THEN BPTree_is_valid_index(t, x)
        ELSE IF BPTree_is_valid_index(t, y).tag # "Ok" THEN BPTree_is_valid_index(t, y)
        ELSE IF ~(x <= y) THEN Ok(0)
        ELSE IF close.tag # "Ok" THEN close
        ELSE Ok(IF y <= close.val THEN 1 ELSE 0)

\* variant: the size is half the distance to the matching close, rounded down
BPTree_subtree_size_without_plus_one(t, index, overflow_checks) ==
    LET close == MinMax_find_close(t.minmax, index, overflow_checks)
    IN  IF BPTree_is_valid_index(t, index).tag # "Ok" THEN BPTree_is_valid_index(t, index)
        ELSE IF close.tag # "Ok" THEN close
        ELSE Ok((close.val - index) \div 2)

\* find_close(index) - index underflows when the position returned is before index
BPTree_subtree_size(t, index, overflow_checks) ==
    LET close == MinMax_find_close(t.minmax, index, overflow_checks)
    IN  IF BPTree_is_valid_index(t, index).tag # "Ok" THEN BPTree_is_valid_index(t, index)
        ELSE IF close.tag # "Ok" THEN close
        ELSE IF close.val < index /\ overflow_checks THEN Panic
        ELSE IF close.val < index - 1 THEN Ok((2 ^ 63) + ((close.val - index + 1) \div 2))
        ELSE Ok((close.val - index + 1) \div 2)

BPTree_pre_rank(t, index) == RankSelect_rank_1(t.bits, index)

\* variant: ranks are counted from 0
BPTree_pre_select_zero_based(t, rank) == RankSelect_select_1(t.bits, rank + 1)

BPTree_pre_select(t, rank) == RankSelect_select_1(t.bits, rank)

\* labels.get(pre_rank(index) - 1); the subtraction underflows when the rank
\* is 0, and get of the wrapped index finds nothing
BPTree_child_label(t, index, overflow_checks) ==
    LET rank == BPTree_pre_rank(t, index)
    IN  IF BPTree_is_valid_index(t, index).tag # "Ok" THEN BPTree_is_valid_index(t, index)
        ELSE IF rank.tag # "Ok" THEN Panic
        ELSE IF rank.val = 0 THEN (IF overflow_checks THEN Panic ELSE Err("NoLabelError"))
        ELSE IF rank.val - 1 >= Len(t.labels) THEN Err("NoLabelError")
        ELSE Ok(t.labels[rank.val])

\* the while loop of labeled_child: its condition asks for the next sibling of
\* first_child, its body steps from sibling; steps counts the iterations left
\* before every position has been passed
RECURSIVE LabeledChildLoop(_, _, _, _, _, _)
LabeledChildLoop(t, first_child, sibling, label, overflow_checks, steps) ==
    LET cond == BPTree_next_sibling(t, first_child, overflow_checks)
        next == BPTree_next_sibling(t, sibling, overflow_checks)
        lab == BPTree_child_label(t, next.val, overflow_checks)
    IN  IF cond.tag \in {"Panic", "Hang"} THEN cond
        ELSE IF cond.tag # "Ok" THEN Err("NoSuchChildError")
        ELSE IF next.tag # "Ok" THEN next
        ELSE IF lab.tag # "Ok" THEN lab
        ELSE IF lab.val = label THEN Ok(next.val)
        ELSE IF steps = 0 THEN Hang
        ELSE LabeledChildLoop(t, first_child, next.val, label, overflow_checks, steps - 1)

BPTree_labeled_child(t, index, label, overflow_checks) ==
    LET first_child == BPTree_first_child(t, index)
        lab == BPTree_child_label(t, first_child.val, overflow_checks)
    IN  IF BPTree_is_valid_index(t, index).tag # "Ok" THEN BPTree_is_valid_index(t, index)
        ELSE IF first_child.tag # "Ok" THEN first_child
        ELSE IF lab.tag # "Ok" THEN lab
        ELSE IF lab.val = label THEN Ok(first_child.val)
        ELSE LabeledChildLoop(t, first_child.val, first_child.val, label,
                              overflow_checks, Len(t.bits))

\* traverse_id_tree_for_bitvec: 1, the sequences of the children in order, 0
RECURSIVE BPTree_traverse_id_tree_for_bitvec(_, _)
RECURSIVE TraverseChildren(_, _, _, _)
TraverseChildren(tree, children, k, bitvec) ==
    IF k > Len(children) THEN bitvec
    ELSE TraverseChildren(tree, children, k + 1,
             bitvec \o BPTree_traverse_id_tree_for_bitvec(tree, children[k]))

\* variant: the node is closed before its children are written
BPTree_traverse_closes_before_children(tree, node) ==
    TraverseChildren(tree, Tree_children(tree, node), 1, <<1, 0>>)

BPTree_traverse_id_tree_for_bitvec(tree, node) ==
    Append(TraverseChildren(tree, Tree_children(tree, node), 1, <<1>>), 0)

\* from_id_tree does not validate the sequence it has written
BPTree_from_id_tree(tree) ==
    IF Tree_is_empty(tree) THEN Err("EmptyTreeError") ELSE Ok(0)

\* the facade value: bits (held by rankselect), the MinMax over them, labels
BPTree_object(bits, labels) ==
    [kind |-> "BPTree", bits |-> bits, minmax |-> MinMax_new(bits, BP_BLOCK_SIZE),
     labels |-> labels]

\* variant: equality also compares the labels
BPTree_eq_with_labels(t, other) ==
    t.bits = other.bits /\ t.labels = other.labels

\* PartialEq compares rankselect.bits()
BPTree_eq(t, other) == t.bits = other.bits

(* ----------------------------- LOUDSTree ------------------------------ *)

LOUDSTree_from_bitvec(bitvec) ==
    IF ~is_valid(bitvec) THEN Err("InvalidBitvecError") ELSE Ok(0)

\* variant: the test for the 0 that ends a run of ones is left out
LOUDSTree_is_leaf_without_run_end_test(t, index) ==
    IF \/ index >= Len(t.bits)
       \/ index = 0
    THEN Err("NotANodeError")
    ELSE Ok(1 - Bit(t.bits, index))

\* variant: the 0 after a 1 is the leaf, the 0 after a 0 is turned away
LOUDSTree_is_leaf_zero_after_one(t, index) ==
    IF \/ index >= Len(t.bits)
       \/ index = 0
       \/ (Bit(t.bits, index) = 0 /\ Bit(t.bits, index - 1) = 0)
    THEN Err("NotANodeError")
    ELSE Ok(1 - Bit(t.bits, index))

\* || stops at the first true operand, so get_bit is only reached in range
LOUDSTree_is_leaf(t, index) ==
    IF \/ index >= Len(t.bits)
       \/ index = 0
       \/ (Bit(t.bits, index) = 0 /\ Bit(t.bits, index - 1) = 1)
    THEN Err("NotANodeError")
    ELSE Ok(1 - Bit(t.bits, index))

\* `?` on an Option hands None back
LOUDSTree_prev_0(t, index) ==
    LET rank == RankSelect_rank_0(t.bits, index)
    IN  IF rank.tag # "Ok" THEN None
        ELSE RankSelect_select_0(t.bits, rank.val)

LOUDSTree_next_0(t, index) ==
    LET rank == RankSelect_rank_0(t.bits, index)
    IN  IF rank.tag # "Ok" THEN None
        ELSE RankSelect_select_0(t.bits, rank.val + 1)

\* unwrap of None aborts
LOUDSTree_parent(t, index) ==
    LET rank == RankSelect_rank_0(t.bits, index)
        one == RankSelect_select_1(t.bits, rank.val)
        zero == LOUDSTree_prev_0(t, one.val)
    IN  IF index >= Len(t.bits) \/ index = 0 THEN Err("NotANodeError")
        ELSE IF index = 1 THEN Err("RootNodeError")
        ELSE IF rank.tag # "Ok" THEN Panic
        ELSE IF one.tag # "Ok" THEN Panic
        ELSE IF zero.tag # "Ok" THEN Panic
        ELSE Ok(zero.val + 1)

\* rank_1(index) + n - 2 underflows when rank_1(index) + n < 2; the wrapped
\* number is larger than any count of zeros, so select_0 finds nothing
LOUDSTree_child(t, index, n, overflow_checks) ==
    LET rank == RankSelect_rank_1(t.bits, index)
        zero == RankSelect_select_0(t.bits, rank.val + n - 2)
    IN  IF rank.tag # "Ok" THEN None
        ELSE IF rank.val + n < 2 THEN (IF overflow_checks THEN Panic ELSE None)
        ELSE IF zero.tag # "Ok" THEN None
        ELSE Ok(zero.val + 1)

LOUDSTree_degree(t, index) ==
    LET leaf == LOUDSTree_is_leaf(t, index)
        zero == LOUDSTree_next_0(t, index)
    IN  IF leaf.tag # "Ok" THEN leaf
        ELSE IF leaf.val = 1 THEN Ok(0)
        ELSE IF zero.tag # "Ok" THEN Err("NotANodeError")
        ELSE Ok(zero.val - index)

LOUDSTree_first_child(t, index, overflow_checks) ==
    LET leaf == LOUDSTree_is_leaf(t, index)
        child == LOUDSTree_child(t, index, 1, overflow_checks)
    IN  IF leaf.tag # "Ok" THEN leaf
        ELSE IF leaf.val = 1 THEN Err("NotAParentError")
        ELSE IF child.tag # "Ok" THEN Panic
        ELSE child

\* an Option: `?` hands None back; y - prev_0(y) is a u64 subtraction
LOUDSTree_child_rank(t, index, overflow_checks) ==
    LET rank == RankSelect_rank_0(t.bits, index - 1)
        y == RankSelect_select_1(t.bits, rank.val)
        prev == LOUDSTree_prev_0(t, y.val)
    IN  IF index <= 1 THEN Ok(0)
        ELSE IF rank.tag # "Ok" THEN None
        ELSE IF y.tag # "Ok" THEN None
        ELSE IF prev.tag # "Ok" THEN None
        ELSE IF prev.val > y.val /\ overflow_checks THEN Panic
        ELSE Ok(y.val - prev.val)

\* parent(index)? has turned away index 0 and 1, so index - 1 does not underflow
LOUDSTree_next_sibling(t, index) ==
    LET parent_a == LOUDSTree_parent(t, index)
        rank == RankSelect_rank_0(t.bits, index - 1)
        zero == RankSelect_select_0(t.bits, rank.val + 1)
        sibling == zero.val + 1
        parent_b == LOUDSTree_parent(t, sibling)
    IN  IF parent_a.tag # "Ok" THEN parent_a
        ELSE IF rank.tag # "Ok" THEN Panic
        ELSE IF zero.tag # "Ok" THEN Panic
        ELSE IF parent_b.tag # "Ok" THEN parent_b
        ELSE IF parent_a.val = parent_b.val THEN Ok(sibling)
        ELSE Err("NoSiblingError")

\* labels.get(parent_rank + child_rank - 1): the subtraction underflows when
\* the sum is 0, and get of the wrapped index finds nothing
LOUDSTree_child_label(t, index, overflow_checks) ==
    LET parent == IF index # 1 THEN LOUDSTree_parent(t, index) ELSE Ok(0)
        degree == LOUDSTree_degree(t, parent.val)
        rank == LOUDSTree_child_rank(t, index, overflow_checks)
        child_rank == IF index = 1 \/ degree.val = 1 THEN 0 ELSE rank.val
        parent_rank == RankSelect_rank_1(t.bits, parent.val)
        label_index == parent_rank.val + child_rank - 1
    IN  IF parent.tag # "Ok" THEN parent
        ELSE IF index # 1 /\ degree.tag # "Ok" THEN degree
        ELSE IF index # 1 /\ degree.val # 1 /\ rank.tag # "Ok" THEN Panic
        ELSE IF parent_rank.tag # "Ok" THEN Panic
        ELSE IF label_index < 0
             THEN (IF overflow_checks THEN Panic ELSE Err("NoLabelError"))
        ELSE IF label_index >= Len(t.labels) THEN Err("NoLabelError")
        ELSE Ok(t.labels[label_index + 1])

\* the for loop of labeled_child from the i-th child on; labels[label_index]
\* aborts when the index is out of bounds
RECURSIVE LOUDSLabeledChildLoop(_, _, _, _, _, _)
LOUDSLabeledChildLoop(t, index, label, i, child_count, overflow_checks) ==
    LET child_index == LOUDSTree_child(t, index, i, overflow_checks)
        rank == RankSelect_rank_0(t.bits, child_index.val)
        leaf == LOUDSTree_is_leaf(t, child_index.val)
        label_index == IF leaf.val = 1 THEN rank.val - 1 ELSE rank.val
    IN  IF i > child_count THEN Err("NoSuchChildError")
        ELSE IF child_index.tag # "Ok" THEN Panic
        ELSE IF rank.tag # "Ok" THEN Err("NotANodeError")
        ELSE IF leaf.tag # "Ok" THEN Panic
        ELSE IF label_index < 0 THEN Panic
        ELSE IF label_index >= Len(t.labels) THEN Panic
        ELSE IF t.labels[label_index + 1] = label THEN Ok(child_index.val)
        ELSE LOUDSLabeledChildLoop(t, index, label, i + 1, child_count,
                                   overflow_checks)

LOUDSTree_labeled_child(t, index, label, overflow_checks) ==
    LET child_count == LOUDSTree_degree(t, index)
    IN  IF child_count.tag # "Ok" THEN child_count
        ELSE LOUDSLabeledChildLoop(t, index, label, 1, child_count.val,
                                   overflow_checks)

\* the sequence from_id_tree writes: a leading 1, then for each node in level
\* order one 1 per child and a 0
Ones(n) == [k \in 1 .. n |-> 1]

RECURSIVE LevelOrderBits(_, _, _, _)
LevelOrderBits(tree, order, k, bitvec) ==
    IF k > Len(order) THEN bitvec
    ELSE LevelOrderBits(tree, order, k + 1,
             Append(bitvec \o Ones(Len(Tree_children(tree, order[k]))), 0))

\* variant: no leading 1 before the run of the root
LOUDSTree_id_tree_bitvec_without_leading_one(tree) ==
    LevelOrderBits(tree, Tree_traverse_level_order(tree), 1, <<>>)

LOUDSTree_id_tree_bitvec(tree) ==
    LevelOrderBits(tree, Tree_traverse_level_order(tree), 1, <<1>>)

\* from_bitvec(bitvec).unwrap() aborts when the sequence written is rejected
LOUDSTree_from_id_tree(tree) ==
    IF Tree_is_empty(tree) THEN Err("EmptyTreeError")
    ELSE IF LOUDSTree_from_bitvec(LOUDSTree_id_tree_bitvec(tree)).tag # "Ok" THEN Panic
    ELSE Ok(0)

\* the facade value: bits (held by rankselect) and labels
LOUDSTree_object(bits, labels) ==
    [kind |-> "LOUDSTree", bits |-> bits, minmax |-> MinMax_new(<<>>, 1),
     labels |-> labels]

\* variant: equality also compares the labels
LOUDSTree_eq_with_labels(t, other) ==
    t.bits = other.bits /\ t.labels = other.labels

\* PartialEq compares rankselect.bits()
LOUDSTree_eq(t, other) == t.bits = other.bits

(* ------------------------------ objects ------------------------------- *)

NoMinMax == MinMax_new(<<>>, 1)

NoObject == [kind |-> "none", bits |-> <<>>, minmax |-> NoMinMax, labels |-> <<>>]

Call(op, bits, a, b, res) == [op |-> op, bits |-> bits, a |-> a, b |-> b, res |-> res]

\* nothing is constructed yet
Init ==
    /\ obj = NoObject
    /\ last = Call("none", <<>>, 0, 0, Ok(0))

Diffs == -MaxDiff .. MaxDiff

\* positions of the bit sequence of the object
Positions == 0 .. Len(obj.bits) - 1

\* The queries take &self and leave the object as it is, so the answer to a
\* query depends on the object alone: a behaviour is a construction followed
\* by one query on the object it made.
\* a behaviour makes one constructor call
Start == obj.kind = "none" /\ last.op = "none"

Constructed(kind) ==
    /\ obj.kind = kind
    /\ last.op \in {"MinMax::new", "BPTree::from_bitvec", "LOUDSTree::from_bitvec",
                   "BPTree::from_id_tree", "LOUDSTree::from_id_tree"}

(* --------------------------- constructors ----------------------------- *)

\* MinMax::new(bits, block_size), called directly
New ==
    /\ Start
    /\ \E B \in InputSeqs, s \in 1 .. MaxBlockSize :
          /\ obj' = [kind |-> "MinMax", bits |-> B, minmax |-> MinMax_new(B, s),
                     labels |-> <<>>]
          /\ last' = Call("MinMax::new", B, s, 0, Ok(0))

BPFromBitvec ==
    /\ Start
    /\ \E B \in InputSeqs :
          /\ obj' = IF BPTree_from_bitvec(B).tag = "Ok"
                    THEN [kind |-> "BPTree", bits |-> B,
                          minmax |-> MinMax_new(B, BP_BLOCK_SIZE), labels |-> <<>>]
                    ELSE obj
          /\ last' = Call("BPTree::from_bitvec", B, 0, 0, BPTree_from_bitvec(B))

LOUDSFromBitvec ==
    /\ Start
    /\ \E B \in InputSeqs :
          /\ obj' = IF LOUDSTree_from_bitvec(B).tag = "Ok"
                    THEN [kind |-> "LOUDSTree", bits |-> B, minmax |-> NoMinMax,
                          labels |-> <<>>]
                    ELSE obj
          /\ last' = Call("LOUDSTree::from_bitvec", B, 0, 0, LOUDSTree_from_bitvec(B))

\* a call whose argument is a reference tree or another facade
CallWith(op, arg, res) ==
    [op |-> op, bits |-> <<>>, a |-> 0, b |-> 0, res |-> res, arg |-> arg]

BPFromIdTree ==
    /\ Start
    /\ \E tree \in IdTrees :
          /\ obj' = IF BPTree_from_id_tree(tree).tag = "Ok"
                    THEN BPTree_object(BPTree_traverse_id_tree_for_bitvec(tree, 1),
                                       DataOf(tree, Tree_traverse_pre_order(tree)))
                    ELSE obj
          /\ last' = CallWith("BPTree::from_id_tree", tree, BPTree_from_id_tree(tree))

LOUDSFromIdTree ==
    /\ Start
    /\ \E tree \in IdTrees :
          /\ obj' = IF LOUDSTree_from_id_tree(tree).tag = "Ok"
                    THEN LOUDSTree_object(LOUDSTree_id_tree_bitvec(tree),
                                          DataOf(tree, Tree_traverse_level_order(tree)))
                    ELSE obj
          /\ last' = CallWith("LOUDSTree::from_id_tree", tree, LOUDSTree_from_id_tree(tree))

\* the facades a caller can hold to compare with: built by from_bitvec (no
\* labels) or by from_id_tree
BPFacades ==
    {BPTree_object(B, <<>>) : B \in {X \in InputSeqs : BPTree_from_bitvec(X).tag = "Ok"}}
    \cup {BPTree_object(BPTree_traverse_id_tree_for_bitvec(tree, 1),
                        DataOf(tree, Tree_traverse_pre_order(tree)))
          : tree \in {T \in IdTrees : BPTree_from_id_tree(T).tag = "Ok"}}

LOUDSFacades ==
    {LOUDSTree_object(B, <<>>) : B \in {X \in InputSeqs : LOUDSTree_from_bitvec(X).tag = "Ok"}}
    \cup {LOUDSTree_object(LOUDSTree_id_tree_bitvec(tree),
                           DataOf(tree, Tree_traverse_level_order(tree)))
          : tree \in {T \in IdTrees : LOUDSTree_from_id_tree(T).tag = "Ok"}}

\* self == other
BPEq ==
    /\ Constructed("BPTree")
    /\ \E other \in BPFacades :
          last' = CallWith("BPTree::eq", other,
                           Ok(IF BPTree_eq(obj, other) THEN 1 ELSE 0))
    /\ UNCHANGED obj

LOUDSEq ==
    /\ Constructed("LOUDSTree")
    /\ \E other \in LOUDSFacades :
          last' = CallWith("LOUDSTree::eq", other,
                           Ok(IF LOUDSTree_eq(obj, other) THEN 1 ELSE 0))
    /\ UNCHANGED obj

(* -------------------------- MinMax queries ---------------------------- *)

Excess ==
    /\ Constructed("MinMax")
    /\ \E i \in 0 .. Len(obj.bits) :
          last' = Call("excess", obj.bits, i, 0, MinMax_excess(obj.minmax, i))
    /\ UNCHANGED obj

FwdSearch ==
    /\ Constructed("MinMax")
    /\ \E i \in Positions, d \in Diffs, oc \in BOOLEAN :
          last' = Call("fwd_search", obj.bits, i, d,
                       MinMax_fwd_search(obj.minmax, i, d, oc))
    /\ UNCHANGED obj

BwdSearch ==
    /\ Constructed("MinMax")
    /\ \E i \in Positions, d \in Diffs, oc \in BOOLEAN :
          last' = Call("bwd_search", obj.bits, i, d,
                       MinMax_bwd_search(obj.minmax, i, d, oc))
    /\ UNCHANGED obj

FindClose ==
    /\ Constructed("MinMax")
    /\ \E i \in Positions, oc \in BOOLEAN :
          last' = Call("find_close", obj.bits, i, 0,
                       MinMax_find_close(obj.minmax, i, oc))
    /\ UNCHANGED obj

Enclose ==
    /\ Constructed("MinMax")
    /\ \E i \in Positions, oc \in BOOLEAN :
          last' = Call("enclose", obj.bits, i, 0, MinMax_enclose(obj.minmax, i, oc))
    /\ UNCHANGED obj

Rank1 ==
    /\ Constructed("MinMax")
    /\ \E i \in 0 .. Len(obj.bits) :
          last' = Call("rank_1", obj.bits, i, 0, MinMax_rank_1(obj.minmax, i))
    /\ UNCHANGED obj

Rank0 ==
    /\ Constructed("MinMax")
    /\ \E i \in 0 .. Len(obj.bits), oc \in BOOLEAN :
          last' = Call("rank_0", obj.bits, i, 0, MinMax_rank_0(obj.minmax, i, oc))
    /\ UNCHANGED obj

Select1 ==
    /\ Constructed("MinMax")
    /\ \E k \in 0 .. MaxNodes + 1 :
          last' = Call("select_1", obj.bits, k, 0, MinMax_select_1(obj.minmax, k))
    /\ UNCHANGED obj

Select0 ==
    /\ Constructed("MinMax")
    /\ \E k \in 0 .. MaxNodes + 1 :
          last' = Call("select_0", obj.bits, k, 0, MinMax_select_0(obj.minmax, k))
    /\ UNCHANGED obj

(* -------------------------- BPTree queries ---------------------------- *)

Parent ==
    /\ Constructed("BPTree")
    /\ \E x \in 0 .. Len(obj.bits), oc \in BOOLEAN :
          last' = Call("BPTree::parent", obj.bits, x, 0, BPTree_parent(obj, x, oc))
    /\ UNCHANGED obj

NextSibling ==
    /\ Constructed("BPTree")
    /\ \E x \in 0 .. Len(obj.bits), oc \in BOOLEAN :
          last' = Call("BPTree::next_sibling", obj.bits, x, 0,
                       BPTree_next_sibling(obj, x, oc))
    /\ UNCHANGED obj

Depth ==
    /\ Constructed("BPTree")
    /\ \E x \in 0 .. Len(obj.bits) :
          last' = Call("BPTree::depth", obj.bits, x, 0, BPTree_depth(obj, x))
    /\ UNCHANGED obj

IsLeaf ==
    /\ Constructed("BPTree")
    /\ \E x \in 0 .. Len(obj.bits) :
          last' = Call("BPTree::is_leaf", obj.bits, x, 0, BPTree_is_leaf(obj, x))
    /\ UNCHANGED obj

FirstChild ==
    /\ Constructed("BPTree")
    /\ \E x \in 0 .. Len(obj.bits) :
          last' = Call("BPTree::first_child", obj.bits, x, 0, BPTree_first_child(obj, x))
    /\ UNCHANGED obj

Ancestor ==
    /\ Constructed("BPTree")
    /\ \E x \in 0 .. Len(obj.bits), y \in 0 .. Len(obj.bits), oc \in BOOLEAN :
          last' = Call("BPTree::ancestor", obj.bits, x, y, BPTree_ancestor(obj, x, y, oc))
    /\ UNCHANGED obj

SubtreeSize ==
    /\ Constructed("BPTree")
    /\ \E x \in 0 .. Len(obj.bits), oc \in BOOLEAN :
          last' = Call("BPTree::subtree_size", obj.bits, x, 0,
                       BPTree_subtree_size(obj, x, oc))
    /\ UNCHANGED obj

PreRank ==
    /\ Constructed("BPTree")
    /\ \E i \in 0 .. Len(obj.bits) + 1 :
          last' = Call("BPTree::pre_rank", obj.bits, i, 0, BPTree_pre_rank(obj, i))
    /\ UNCHANGED obj

PreSelect ==
    /\ Constructed("BPTree")
    /\ \E k \in 0 .. Len(obj.bits) :
          last' = Call("BPTree::pre_select", obj.bits, k, 0, BPTree_pre_select(obj, k))
    /\ UNCHANGED obj

ChildLabel ==
    /\ Constructed("BPTree")
    /\ \E x \in 0 .. Len(obj.bits), oc \in BOOLEAN :
          last' = Call("BPTree::child_label", obj.bits, x, 0,
                       BPTree_child_label(obj, x, oc))
    /\ UNCHANGED obj

LabeledChild ==
    /\ Constructed("BPTree")
    /\ \E x \in 0 .. Len(obj.bits), l \in Labels, oc \in BOOLEAN :
          last' = Call("BPTree::labeled_child", obj.bits, x, l,
                       BPTree_labeled_child(obj, x, l, oc))
    /\ UNCHANGED obj

(* ------------------------- LOUDSTree queries -------------------------- *)

LOUDSParent ==
    /\ Constructed("LOUDSTree")
    /\ \E x \in 0 .. Len(obj.bits) :
          last' = Call("LOUDSTree::parent", obj.bits, x, 0, LOUDSTree_parent(obj, x))
    /\ UNCHANGED obj

LOUDSDegree ==
    /\ Constructed("LOUDSTree")
    /\ \E x \in 0 .. Len(obj.bits) :
          last' = Call("LOUDSTree::degree", obj.bits, x, 0, LOUDSTree_degree(obj, x))
    /\ UNCHANGED obj

LOUDSChild ==
    /\ Constructed("LOUDSTree")
    /\ \E x \in 0 .. Len(obj.bits), n \in 0 .. MaxNodes, oc \in BOOLEAN :
          last' = Call("LOUDSTree::child", obj.bits, x, n, LOUDSTree_child(obj, x, n, oc))
    /\ UNCHANGED obj

LOUDSFirstChild ==
    /\ Constructed("LOUDSTree")
    /\ \E x \in 0 .. Len(obj.bits), oc \in BOOLEAN :
          last' = Call("LOUDSTree::first_child", obj.bits, x, 0,
                       LOUDSTree_first_child(obj, x, oc))
    /\ UNCHANGED obj

LOUDSNextSibling ==
    /\ Constructed("LOUDSTree")
    /\ \E x \in 0 .. Len(obj.bits) :
          last' = Call("LOUDSTree::next_sibling", obj.bits, x, 0,
                       LOUDSTree_next_sibling(obj, x))
    /\ UNCHANGED obj

LOUDSIsLeaf ==
    /\ Constructed("LOUDSTree")
    /\ \E x \in 0 .. Len(obj.bits) :
          last' = Call("LOUDSTree::is_leaf", obj.bits, x, 0,
                       LOUDSTree_is_leaf(obj, x))
    /\ UNCHANGED obj

LOUDSChildRank ==
    /\ Constructed("LOUDSTree")
    /\ \E x \in 0 .. Len(obj.bits), oc \in BOOLEAN :
          last' = Call("LOUDSTree::child_rank", obj.bits, x, 0,
                       LOUDSTree_child_rank(obj, x, oc))
    /\ UNCHANGED obj

LOUDSChildLabel ==
    /\ Constructed("LOUDSTree")
    /\ \E x \in 0 .. Len(obj.bits), oc \in BOOLEAN :
          last' = Call("LOUDSTree::child_label", obj.bits, x, 0,
                       LOUDSTree_child_label(obj, x, oc))
    /\ UNCHANGED obj

LOUDSLabeledChild ==
    /\ Constructed("LOUDSTree")
    /\ \E x \in 0 .. Len(obj.bits), l \in Labels, oc \in BOOLEAN :
          last' = Call("LOUDSTree::labeled_child", obj.bits, x, l,
                       LOUDSTree_labeled_child(obj, x, l, oc))
    /\ UNCHANGED obj

Next ==
    \/ New
    \/ BPFromBitvec
    \/ LOUDSFromBitvec
    \/ Excess
    \/ FwdSearch
    \/ BwdSearch
    \/ FindClose
    \/ Enclose
    \/ Parent
    \/ NextSibling
    \/ Depth
    \/ IsLeaf
    \/ FirstChild
    \/ Ancestor
    \/ SubtreeSize
    \/ PreRank
    \/ PreSelect
    \/ BPFromIdTree
    \/ LOUDSFromIdTree
    \/ BPEq
    \/ LOUDSEq
    \/ ChildLabel
    \/ LabeledChild
    \/ LOUDSParent
    \/ LOUDSDegree
    \/ LOUDSChild
    \/ LOUDSFirstChild
    \/ LOUDSNextSibling
    \/ LOUDSIsLeaf
    \/ LOUDSChildRank
    \/ LOUDSChildLabel
    \/ LOUDSLabeledChild
    \/ Rank1
    \/ Rank0
    \/ Select1
    \/ Select0

Spec == Init /\ [][Next]_vars

(* ====================================================================== *)
(*                        reference notions                               *)
(* ====================================================================== *)

\* some position after i has excess e
HasLater(B, i, e) == \E j \in i + 1 .. Len(B) - 1 : E(B, j) = e

\* the smallest position after i with excess e
FirstLater(B, i, e) ==
    CHOOSE j \in i + 1 .. Len(B) - 1 :
        E(B, j) = e /\ \A k \in i + 1 .. j - 1 : E(B, k) # e

\* the matching close of the opening position x
MatchingClose(B, x) == FirstLater(B, x, E(B, x) - 1)

\* some position before i has excess e
HasEarlier(B, i, e) == \E j \in 0 .. i - 1 : E(B, j) = e

\* the largest position before i with excess e
LastEarlier(B, i, e) ==
    CHOOSE j \in 0 .. i - 1 :
        E(B, j) = e /\ \A k \in j + 1 .. i - 1 : E(B, k) # e

\* the data blocks of a MinMax over B with block size s
DataBlocks(B, s) == 0 .. number_of_blocks(Len(B), s) - 1

\* smallest power of two >= n
IsPow2(p) == \E k \in 0 .. p : p = 2 ^ k

SmallestPow2AtLeast(n) ==
    CHOOSE p \in 1 .. 2 * n + 1 : IsPow2(p) /\ p >= n /\ \A q \in 1 .. p - 1 : ~(IsPow2(q) /\ q >= n)

(* ====================================================================== *)
(*                              claims                                    *)
(* ====================================================================== *)

\* C2: on a MinMax over a sequence satisfying the excess invariant, with any
\* block size, find_close(x) of an opening position x returns the matching
\* close c: c > x, B[c] = 0, E(c) = E(x) - 1, and no position between x and c
\* has that excess.
C2_FindCloseMatches ==
    ( /\ obj.kind = "MinMax"
      /\ last.op = "find_close"
      /\ ExcessInvariant(obj.bits)
      /\ Bit(obj.bits, last.a) = 1 )
    => /\ last.res.tag = "Ok"
       /\ last.res.val > last.a
       /\ last.res.val < Len(obj.bits)
       /\ Bit(obj.bits, last.res.val) = 0
       /\ E(obj.bits, last.res.val) = E(obj.bits, last.a) - 1
       /\ \A j \in last.a + 1 .. last.res.val - 1 :
              E(obj.bits, j) # E(obj.bits, last.a) - 1

\* C2 witness: the matching close of an opening position is found at least
\* two blocks after the block of x, through the bottom-up and top-down phases.
C2_Witness ==
    /\ obj.kind = "MinMax"
    /\ last.op = "find_close"
    /\ ExcessInvariant(obj.bits)
    /\ Bit(obj.bits, last.a) = 1
    /\ Len(obj.minmax.heap) >= 7
    /\ last.res.tag = "Ok"
    /\ last.res.val \div obj.minmax.block_size >= last.a \div obj.minmax.block_size + 2
    /\ last.res.val = MatchingClose(obj.bits, last.a)

C5_FwdSearchOffsetD ==
    ( /\ obj.kind = "MinMax"
      /\ last.op = "fwd_search"
      /\ HasLater(obj.bits, last.a, E(obj.bits, last.a) + last.b) )
    => last.res = Ok(FirstLater(obj.bits, last.a, E(obj.bits, last.a) + last.b))

\* C5 (amended): fwd_search(i, d) returns the smallest j > i with
\* E(j) = E(i) + d - 1 whenever such a j exists.
C5_FwdSearchOffsetDMinus1 ==
    ( /\ obj.kind = "MinMax"
      /\ last.op = "fwd_search"
      /\ HasLater(obj.bits, last.a, E(obj.bits, last.a) + last.b - 1) )
    => last.res = Ok(FirstLater(obj.bits, last.a, E(obj.bits, last.a) + last.b - 1))

\* C5 witness: a fwd_search with a nonzero offset answered at least two
\* blocks after the block of i.
C5_Witness ==
    /\ obj.kind = "MinMax"
    /\ last.op = "fwd_search"
    /\ last.b = 2
    /\ HasLater(obj.bits, last.a, E(obj.bits, last.a) + last.b - 1)
    /\ Len(obj.minmax.heap) >= 7
    /\ last.res.tag = "Ok"
    /\ last.res.val \div obj.minmax.block_size >= last.a \div obj.minmax.block_size + 2

\* C6: bwd_search(i, d) returns the largest j < i with E(j) = E(i) + d
\* whenever such a j exists, in the block of i or in another block.
C6_BwdSearchFindsLast ==
    ( /\ obj.kind = "MinMax"
      /\ last.op = "bwd_search"
      /\ HasEarlier(obj.bits, last.a, E(obj.bits, last.a) + last.b) )
    => last.res = Ok(LastEarlier(obj.bits, last.a, E(obj.bits, last.a) + last.b))

\* C8: after MinMax::new every internal heap node is the composition of its
\* two children, and equals its left child when the right child covers no bits.
C8_CompositionLaw ==
    obj.kind = "MinMax" =>
        \A k \in 0 .. Len(obj.minmax.heap) \div 2 - 1 :
            LET n == Node(obj.minmax.heap, k)
                l == Node(obj.minmax.heap, 2 * k + 1)
                r == Node(obj.minmax.heap, 2 * k + 2)
                lmin == l.min_excess
                rmin == l.excess + r.min_excess
            IN  /\ n.excess = l.excess + r.excess
                /\ n.min_excess = Min2(lmin, rmin)
                /\ n.max_excess = Max2(l.max_excess, l.excess + r.max_excess)
                /\ n.number_min_excess =
                      (IF lmin <= rmin THEN l.number_min_excess ELSE 0)
                      + (IF rmin <= lmin THEN r.number_min_excess ELSE 0)
                /\ n.bits_for_node = l.bits_for_node + r.bits_for_node
                /\ r.bits_for_node = 0 => n = l

\* C8 witness: a heap with a node whose right child covers no bits and a
\* node whose two children both attain the minimum.
C8_Witness ==
    /\ obj.kind = "MinMax"
    /\ last.op = "MinMax::new"
    /\ \E k \in 0 .. Len(obj.minmax.heap) \div 2 - 1 :
          /\ Node(obj.minmax.heap, 2 * k + 1).bits_for_node > 0
          /\ Node(obj.minmax.heap, 2 * k + 2).bits_for_node = 0
    /\ \E k \in 0 .. Len(obj.minmax.heap) \div 2 - 1 :
          LET l == Node(obj.minmax.heap, 2 * k + 1)
              r == Node(obj.minmax.heap, 2 * k + 2)
          IN  /\ r.bits_for_node > 0
              /\ l.min_excess = l.excess + r.min_excess
              /\ Node(obj.minmax.heap, k).number_min_excess
                    = l.number_min_excess + r.number_min_excess

\* C9: the heap has 2P - 1 nodes, P the smallest power of two at least the
\* number of blocks; data block b is the leaf at P - 1 + b and covers the bits
\* of block b; every leaf after the last data block is all zero.
C9_HeapLayout ==
    obj.kind = "MinMax" =>
        LET B == obj.bits
            s == obj.minmax.block_size
            P == SmallestPow2AtLeast((Len(B) + s - 1) \div s)
            heap == obj.minmax.heap
        IN  /\ Len(heap) = 2 * P - 1
            /\ \A b \in DataBlocks(B, s) :
                  /\ Node(heap, P - 1 + b).bits_for_node = Min2(s, Len(B) - b * s)
                  /\ Node(heap, P - 1 + b).excess =
                        E(B, Min2(b * s + s, Len(B)) - 1) - E(B, b * s - 1)
            /\ \A k \in P - 1 + number_of_blocks(Len(B), s) .. 2 * P - 2 :
                  Node(heap, k) = DefaultNode


\* C9 witness: three data blocks, the last one underfull, in a heap of 7
\* nodes whose last leaf is a sentinel.
C9_Witness ==
    /\ obj.kind = "MinMax"
    /\ last.op = "MinMax::new"
    /\ Len(obj.bits) = 5
    /\ obj.minmax.block_size = 2
    /\ Len(obj.minmax.heap) = 7
    /\ Node(obj.minmax.heap, 5).bits_for_node = 1
    /\ Node(obj.minmax.heap, 6) = DefaultNode

\* the error variants of NodeError
NodeErrors ==
    {"NotANodeError", "NotALeafError", "NotAParentError", "RootNodeError",
     "NoSiblingError", "HasNoParentError", "HasNoFurtherSiblingsError",
     "NoLabelError", "NoSuchChildError"}

\* C1: from_bitvec of either facade accepts exactly the sequences satisfying
\* the excess invariant, rejects the others with InvalidBitvecError, and the
\* bits of a constructed facade satisfy the invariant.
C1_FromBitvecIffExcessInvariant ==
    /\ last.op \in {"BPTree::from_bitvec", "LOUDSTree::from_bitvec"}
          => /\ (last.res.tag = "Ok") <=> ExcessInvariant(last.bits)
             /\ ~ExcessInvariant(last.bits) => last.res = Err("InvalidBitvecError")
    /\ obj.kind \in {"BPTree", "LOUDSTree"} => ExcessInvariant(obj.bits)

\* C3: on a BP facade BPTree::parent(x) of an opening position x > 0 returns
\* the opening position p of the parent (p < x < find_close(p), no opening
\* position between p and x encloses x); parent(0) is HasNoParentError.
C3_ParentIsEnclosingOpen ==
    ( /\ obj.kind = "BPTree"
      /\ last.op = "BPTree::parent"
      /\ ExcessInvariant(obj.bits)
      /\ last.a < Len(obj.bits)
      /\ Bit(obj.bits, last.a) = 1 )
    => IF last.a = 0
       THEN last.res = Err("HasNoParentError")
       ELSE /\ last.res.tag = "Ok"
            /\ last.res.val \in 0 .. last.a - 1
            /\ Bit(obj.bits, last.res.val) = 1
            /\ last.a < MatchingClose(obj.bits, last.res.val)
            /\ \A q \in last.res.val + 1 .. last.a - 1 :
                  Bit(obj.bits, q) = 1 => MatchingClose(obj.bits, q) < last.a

\* C7: a search whose target no position satisfies returns an error value,
\* never a position or a number standing for "not found".
C7_NotFoundIsAnError ==
    LET B == obj.bits
        i == last.a
        d == last.b
    IN  /\ ( /\ obj.kind = "MinMax"
             /\ last.op = "bwd_search"
             /\ ~HasEarlier(B, i, E(B, i) + d) )
           => last.res.tag \in NodeErrors
        /\ ( /\ obj.kind = "MinMax"
             /\ last.op = "enclose"
             /\ i = 0 )
           => last.res.tag \in NodeErrors
        /\ ( /\ obj.kind = "MinMax"
             /\ last.op = "fwd_search"
             /\ ~HasLater(B, i, E(B, i) + d)
             /\ ~HasLater(B, i, E(B, i) + d - 1) )
           => last.res.tag \in NodeErrors
        /\ ( /\ obj.kind = "MinMax"
             /\ last.op = "find_close"
             /\ ~HasLater(B, i, E(B, i) - 1) )
           => last.res.tag \in NodeErrors

\* C10: on a BP facade next_sibling(x) of a non-root node x returns
\* s = find_close(x) + 1 when B[s] = 1 and NoSiblingError when B[s] = 0.
C10_NextSibling ==
    ( /\ obj.kind = "BPTree"
      /\ last.op = "BPTree::next_sibling"
      /\ ExcessInvariant(obj.bits)
      /\ last.a > 0
      /\ last.a < Len(obj.bits)
      /\ Bit(obj.bits, last.a) = 1 )
    => LET s == MatchingClose(obj.bits, last.a) + 1 IN
       IF Bit(obj.bits, s) = 1
       THEN last.res = Ok(s)
       ELSE last.res = Err("NoSiblingError")

\* a BP facade over a sequence satisfying the excess invariant, and a query
\* on one of its node handles (an opening position)
BPNodeQuery(op) ==
    /\ obj.kind = "BPTree"
    /\ last.op = op
    /\ ExcessInvariant(obj.bits)
    /\ last.a < Len(obj.bits)
    /\ Bit(obj.bits, last.a) = 1

\* the node handles of a bit sequence
NodeHandles(B) == {y \in 0 .. Len(B) - 1 : Bit(B, y) = 1}

\* C11: on a BP facade is_leaf(x) of a node handle x is true iff B[x+1] = 0;
\* first_child(x) is x + 1 when x is not a leaf and NotAParentError when it is.
C11_IsLeafAndFirstChild ==
    /\ BPNodeQuery("BPTree::is_leaf")
          => last.res = Ok(IF Bit(obj.bits, last.a + 1) = 0 THEN 1 ELSE 0)
    /\ BPNodeQuery("BPTree::first_child")
          => last.res = IF Bit(obj.bits, last.a + 1) = 0
                        THEN Err("NotAParentError")
                        ELSE Ok(last.a + 1)

\* C11 witness: is_leaf has answered true for a leaf that is not the first
\* child of its parent.
C11_Witness ==
    /\ BPNodeQuery("BPTree::is_leaf")
    /\ last.a >= 3
    /\ Bit(obj.bits, last.a - 1) = 0
    /\ last.res = Ok(1)

\* C11 witness of first_child: an internal node below the root has a first child
C11_WitnessFirstChild ==
    /\ BPNodeQuery("BPTree::first_child")
    /\ last.a >= 1
    /\ last.res = Ok(last.a + 1)

\* C12: on a BP facade subtree_size(x) of a node handle x is the number of
\* node handles y for which ancestor(x, y) answers true, which is the number
\* of opening positions from x to the matching close of x.
C12_SubtreeSizeCountsDescendants ==
    BPNodeQuery("BPTree::subtree_size")
    => /\ last.res.tag = "Ok"
       /\ \A oc \in BOOLEAN :
             last.res.val = Cardinality({y \in NodeHandles(obj.bits) :
                                BPTree_ancestor(obj, last.a, y, oc) = Ok(1)})
       /\ last.res.val = Cardinality({y \in NodeHandles(obj.bits) :
                                last.a <= y /\ y <= MatchingClose(obj.bits, last.a)})

\* C12 witness: the size of a subtree below the root that has three nodes
C12_Witness ==
    /\ BPNodeQuery("BPTree::subtree_size")
    /\ last.a >= 1
    /\ last.res = Ok(3)
    /\ MatchingClose(obj.bits, last.a) + 2 < Len(obj.bits)

\* C13: over the node handles of a BP facade ancestor is reflexive and
\* transitive, ancestor(x, y) answers true exactly when y lies in
\* [x, find_close(x)] and false when y lies outside.
C13_AncestorReflexiveTransitive ==
    ( /\ BPNodeQuery("BPTree::ancestor")
      /\ last.b < Len(obj.bits)
      /\ Bit(obj.bits, last.b) = 1 )
    => /\ last.res.tag = "Ok"
       /\ last.a = last.b => last.res = Ok(1)
       /\ last.res = Ok(1) <=> ( /\ last.a <= last.b
                                 /\ last.b <= MatchingClose(obj.bits, last.a) )
       /\ last.res = Ok(1) =>
             \A z \in NodeHandles(obj.bits), oc \in BOOLEAN :
                 BPTree_ancestor(obj, last.b, z, oc) = Ok(1)
                 => BPTree_ancestor(obj, last.a, z, oc) = Ok(1)

\* C13 witness: x is a proper ancestor of y, and y has a proper descendant
C13_Witness ==
    /\ BPNodeQuery("BPTree::ancestor")
    /\ last.a >= 1
    /\ last.b > last.a
    /\ last.b < Len(obj.bits) - 1
    /\ Bit(obj.bits, last.b) = 1
    /\ Bit(obj.bits, last.b + 1) = 1
    /\ last.res = Ok(1)

\* C13 witness of the negative case: y is a node after the subtree of x
C13_WitnessOutside ==
    /\ BPNodeQuery("BPTree::ancestor")
    /\ last.b > MatchingClose(obj.bits, last.a)
    /\ last.b < Len(obj.bits)
    /\ Bit(obj.bits, last.b) = 1
    /\ last.res = Ok(0)

\* C14: on a BP facade with n nodes pre_select(k) for 1 <= k <= n is an
\* opening position p, the k-th one, with pre_rank(p) = k; pre_select(0) and
\* pre_select(k) for k > n are none; pre_rank(i) is none for i >= len(B).
C14_PreRankPreSelectRoundTrip ==
    /\ ( /\ obj.kind = "BPTree"
         /\ last.op = "BPTree::pre_select"
         /\ ExcessInvariant(obj.bits) )
       => IF 1 <= last.a /\ last.a <= Cardinality(NodeHandles(obj.bits))
          THEN /\ last.res.tag = "Ok"
               /\ last.res.val \in NodeHandles(obj.bits)
               /\ Cardinality({y \in NodeHandles(obj.bits) : y <= last.res.val}) = last.a
               /\ BPTree_pre_rank(obj, last.res.val) = Ok(last.a)
          ELSE last.res = None
    /\ ( /\ obj.kind = "BPTree"
         /\ last.op = "BPTree::pre_rank"
         /\ ExcessInvariant(obj.bits)
         /\ last.a >= Len(obj.bits) )
       => last.res = None

\* C14 witness: pre_select of the last node of a tree whose last node is not
\* next to the node before it
C14_Witness ==
    /\ obj.kind = "BPTree"
    /\ last.op = "BPTree::pre_select"
    /\ ExcessInvariant(obj.bits)
    /\ last.a = Cardinality(NodeHandles(obj.bits))
    /\ last.a >= 3
    /\ last.res.tag = "Ok"
    /\ Bit(obj.bits, last.res.val - 1) = 0

\* C14 witness of the none cases: a rank above the number of nodes
C14_WitnessNone ==
    /\ obj.kind = "BPTree"
    /\ last.op = "BPTree::pre_select"
    /\ ExcessInvariant(obj.bits)
    /\ last.a = Cardinality(NodeHandles(obj.bits)) + 1
    /\ last.res = None

(* ------------------- reference trees and their encodings -------------- *)

\* v and the nodes on the path from v to the root
RECURSIVE AncOrSelf(_, _)
AncOrSelf(tree, v) ==
    IF v = 0 THEN {} ELSE {v} \cup AncOrSelf(tree, tree.parents[v])

TreeDepth(tree, v) == Cardinality(AncOrSelf(tree, v)) - 1

\* u is visited before v by a depth-first walk that takes children in order:
\* u is a proper ancestor of v, or the paths to u and v part at two siblings
\* of which the one towards u comes first
DfsBefore(tree, u, v) ==
    /\ u # v
    /\ \/ u \in AncOrSelf(tree, v)
       \/ \E a \in AncOrSelf(tree, u), b \in AncOrSelf(tree, v) :
              a # b /\ tree.parents[a] = tree.parents[b] /\ a < b

\* u is visited before v by a level-order walk
LevelBefore(tree, u, v) ==
    \/ TreeDepth(tree, u) < TreeDepth(tree, v)
    \/ TreeDepth(tree, u) = TreeDepth(tree, v) /\ DfsBefore(tree, u, v)

TreeDegree(tree, v) == Cardinality({c \in Tree_nodes(tree) : tree.parents[c] = v})

\* position of the opening parenthesis of v: every node before v has
\* contributed its opening, and all but the proper ancestors their closing
OpenPos(tree, v) ==
    2 * Cardinality({u \in Tree_nodes(tree) : DfsBefore(tree, u, v)}) - TreeDepth(tree, v)

\* depth-first parenthesis encoding: 1 on entry, children in order, 0 on exit
ParenEncoding(tree) ==
    [i \in 1 .. 2 * Len(tree.parents) |->
        IF \E v \in Tree_nodes(tree) : OpenPos(tree, v) = i - 1 THEN 1 ELSE 0]

RunLength(tree, v) == TreeDegree(tree, v) + 1

\* total length of the runs of the nodes of S
RECURSIVE RunLengths(_, _)
RunLengths(tree, S) ==
    IF S = {} THEN 0
    ELSE LET v == CHOOSE x \in S : TRUE
         IN  RunLength(tree, v) + RunLengths(tree, S \ {v})

\* position where the unary run of v starts in the level-order encoding
RunStart(tree, v) ==
    1 + RunLengths(tree, {u \in Tree_nodes(tree) : LevelBefore(tree, u, v)})

\* level-order encoding: a leading 1, then per node in level order one 1
\* per child and a 0
LevelEncoding(tree) ==
    [i \in 1 .. 2 * Len(tree.parents) |->
        IF i = 1 \/ \E v \in Tree_nodes(tree) :
                       /\ RunStart(tree, v) <= i - 1
                       /\ i - 1 < RunStart(tree, v) + TreeDegree(tree, v)
        THEN 1 ELSE 0]

\* C15: for a non-empty reference tree, from_id_tree of the BP facade equals
\* from_bitvec of the depth-first parenthesis encoding, and from_id_tree of
\* the LOUDS facade equals from_bitvec of the level-order encoding.
C15_FromIdTreeEqualsFromBitvec ==
    /\ ( last.op = "BPTree::from_id_tree" /\ ~Tree_is_empty(last.arg) )
       => /\ last.res.tag = "Ok"
          /\ obj.kind = "BPTree"
          /\ BPTree_from_bitvec(ParenEncoding(last.arg)).tag = "Ok"
          /\ BPTree_eq(obj, BPTree_object(ParenEncoding(last.arg), <<>>))
          /\ BPTree_eq(BPTree_object(ParenEncoding(last.arg), <<>>), obj)
    /\ ( last.op = "LOUDSTree::from_id_tree" /\ ~Tree_is_empty(last.arg) )
       => /\ last.res.tag = "Ok"
          /\ obj.kind = "LOUDSTree"
          /\ LOUDSTree_from_bitvec(LevelEncoding(last.arg)).tag = "Ok"
          /\ LOUDSTree_eq(obj, LOUDSTree_object(LevelEncoding(last.arg), <<>>))
          /\ LOUDSTree_eq(LOUDSTree_object(LevelEncoding(last.arg), <<>>), obj)

\* C15 witness: the tree of the unit test (root with two children, the first
\* of which has a child), whose level order differs from its pre-order
C15_Witness ==
    /\ last.op = "LOUDSTree::from_id_tree"
    /\ last.arg.parents = <<0, 1, 1, 2>>
    /\ obj.kind = "LOUDSTree"
    /\ obj.bits = <<1, 1, 1, 0, 1, 0, 0, 0>>

\* C15 witness of the BP half: the same shape inserted in another order
C15_WitnessBP ==
    /\ last.op = "BPTree::from_id_tree"
    /\ last.arg.parents = <<0, 1, 2, 1>>
    /\ obj.kind = "BPTree"
    /\ obj.bits = <<1, 1, 1, 0, 0, 1, 0, 0>>

\* C16: two facades of the same kind compare equal iff their bit sequences
\* are equal, whatever their labels.
C16_EqualIffBitsEqual ==
    /\ ( obj.kind = "BPTree" /\ last.op = "BPTree::eq" )
       => (last.res = Ok(1) <=> obj.bits = last.arg.bits) /\ last.res.val \in {0, 1}
    /\ ( obj.kind = "LOUDSTree" /\ last.op = "LOUDSTree::eq" )
       => (last.res = Ok(1) <=> obj.bits = last.arg.bits) /\ last.res.val \in {0, 1}

\* C16 witness: two facades with the same bits and different labels are equal
C16_Witness ==
    /\ obj.kind = "LOUDSTree"
    /\ last.op = "LOUDSTree::eq"
    /\ Len(obj.bits) >= 6
    /\ obj.bits = last.arg.bits
    /\ obj.labels # last.arg.labels
    /\ Len(obj.labels) = Len(last.arg.labels)
    /\ last.res = Ok(1)

\* C16 witness of the BP half and of inequality: same labels, other bits
C16_WitnessUnequal ==
    /\ obj.kind = "BPTree"
    /\ last.op = "BPTree::eq"
    /\ obj.bits # last.arg.bits
    /\ Len(obj.bits) = Len(last.arg.bits)
    /\ obj.labels = last.arg.labels
    /\ Len(obj.labels) >= 3
    /\ last.res = Ok(0)

\* the navigation operations of the BP facade
BPNavigation ==
    {"BPTree::is_leaf", "BPTree::parent", "BPTree::first_child", "BPTree::next_sibling",
     "BPTree::ancestor", "BPTree::depth", "BPTree::subtree_size", "BPTree::child_label",
     "BPTree::labeled_child"}

\* h is no node handle of B: past the end, or at a closing bit
NotAHandle(B, h) == h >= Len(B) \/ Bit(B, h) = 0

\* C17: a BP navigation operation called with a handle that is >= len(B) or
\* at a closing bit returns NotANodeError: no abort, no successful result.
C17_BadHandleIsNotANode ==
    ( /\ obj.kind = "BPTree"
      /\ ExcessInvariant(obj.bits)
      /\ last.op \in BPNavigation
      /\ \/ NotAHandle(obj.bits, last.a)
         \/ last.op = "BPTree::ancestor" /\ NotAHandle(obj.bits, last.b) )
    => last.res = Err("NotANodeError")

\* the children of the node x of B in sibling order, as a set of positions
ChildrenOf(B, x) ==
    {c \in NodeHandles(B) : /\ x < c
                            /\ c < MatchingClose(B, x)
                            /\ E(B, c) = E(B, x) + 1}

\* the label of the node c: labels are kept in pre-order
LabelOf(t, c) == t.labels[CountUpTo(t.bits, 1, c)]

\* C18: on a BP facade built from a labelled tree, labeled_child(x, l) of an
\* internal node x returns the first child of x carrying label l, and
\* NoSuchChildError when no child of x carries l.
C18_LabeledChild ==
    ( /\ BPNodeQuery("BPTree::labeled_child")
      /\ 2 * Len(obj.labels) = Len(obj.bits)
      /\ ChildrenOf(obj.bits, last.a) # {} )
    => LET with == {c \in ChildrenOf(obj.bits, last.a) : LabelOf(obj, c) = last.b}
       IN  IF with = {}
           THEN last.res = Err("NoSuchChildError")
           ELSE /\ last.res.tag = "Ok"
                /\ last.res.val \in with
                /\ \A c \in with : last.res.val <= c

(* ------------------ the tree a level-order sequence encodes ----------- *)

\* node handles: the position where the unary run of a node starts, which is
\* position 1 for the root and the position after a 0 for every other node
RunStarts(B) == {x \in 1 .. Len(B) - 1 : x = 1 \/ Bit(B, x - 1) = 0}

\* number of the node x in level order, from 1
LevelNumber(B, x) == 1 + CountUpTo(B, 0, x - 1)

\* number of children of x: the length of its run of ones
RunOnes(B, x) ==
    Cardinality({j \in x .. Len(B) - 1 : \A k \in x .. j : Bit(B, k) = 1})

\* the k-th one of B stands for node k; it lies in the run of the parent
OnePosition(B, k) ==
    CHOOSE i \in 0 .. Len(B) - 1 : Bit(B, i) = 1 /\ CountUpTo(B, 1, i) = k

\* the parent of the non-root node x
RefParent(B, x) ==
    CHOOSE q \in RunStarts(B) :
        /\ q <= OnePosition(B, LevelNumber(B, x))
        /\ OnePosition(B, LevelNumber(B, x)) < q + RunOnes(B, q)

\* the children of x
RefChildren(B, x) == {c \in RunStarts(B) \ {1} : RefParent(B, c) = x}

\* the n-th child of x, from 1
RefChild(B, x, n) ==
    CHOOSE c \in RefChildren(B, x) :
        Cardinality({d \in RefChildren(B, x) : d <= c}) = n

\* a LOUDS facade over a sequence satisfying the excess invariant, and a query
\* on one of its node handles
LOUDSNodeQuery(op) ==
    /\ obj.kind = "LOUDSTree"
    /\ last.op = op
    /\ ExcessInvariant(obj.bits)
    /\ last.a \in RunStarts(obj.bits)

\* The tree read off the level-order sequence is the reference tree it was
\* written from: runs start where the encoding puts them, with the degree and
\* the parent of the reference tree.
LevelOrderReadsBack ==
    ( last.op = "LOUDSTree::from_id_tree" /\ obj.kind = "LOUDSTree" )
    => /\ RunStarts(obj.bits) = {RunStart(last.arg, v) : v \in Tree_nodes(last.arg)}
       /\ \A v \in Tree_nodes(last.arg) :
             /\ RunOnes(obj.bits, RunStart(last.arg, v)) = TreeDegree(last.arg, v)
             /\ v # 1 => RefParent(obj.bits, RunStart(last.arg, v))
                          = RunStart(last.arg, last.arg.parents[v])

\* C19: on a LOUDS facade parent(x) of a non-root node handle x is the handle
\* p of the parent of x, so x is one of the children of p; parent(1) is
\* RootNodeError and parent(0) is NotANodeError.
C19_LoudsParent ==
    /\ LOUDSNodeQuery("LOUDSTree::parent")
          => IF last.a = 1
             THEN last.res = Err("RootNodeError")
             ELSE /\ last.res = Ok(RefParent(obj.bits, last.a))
                  /\ last.a \in RefChildren(obj.bits, last.res.val)
    /\ ( obj.kind = "LOUDSTree" /\ last.op = "LOUDSTree::parent" /\ last.a = 0 )
          => last.res = Err("NotANodeError")

\* C20: on a LOUDS facade degree(x) of a node handle x is the number of
\* children of x, child(x, n) for 1 <= n <= degree(x) is the n-th child, and
\* first_child(x) is child(x, 1) for an internal node and NotAParentError for
\* a leaf.
C20_LoudsDegreeAndChild ==
    /\ LOUDSNodeQuery("LOUDSTree::degree")
          => last.res = Ok(Cardinality(RefChildren(obj.bits, last.a)))
    /\ ( /\ LOUDSNodeQuery("LOUDSTree::child")
         /\ 1 <= last.b
         /\ last.b <= Cardinality(RefChildren(obj.bits, last.a)) )
          => last.res = Ok(RefChild(obj.bits, last.a, last.b))
    /\ LOUDSNodeQuery("LOUDSTree::first_child")
          => IF RefChildren(obj.bits, last.a) = {}
             THEN last.res = Err("NotAParentError")
             ELSE /\ last.res = Ok(RefChild(obj.bits, last.a, 1))
                  /\ \A oc \in BOOLEAN :
                        last.res = LOUDSTree_child(obj, last.a, 1, oc)

\* the children of the parent of x that come after x
LaterSiblings(B, x) ==
    {c \in RefChildren(B, RefParent(B, x)) : c > x}

\* C21: on a LOUDS facade next_sibling(x) of a non-root node handle x is the
\* next child of the parent of x when there is one, and NoSiblingError when
\* x is the last child of its parent, the last node of the sequence included.
C21_LoudsNextSibling ==
    ( LOUDSNodeQuery("LOUDSTree::next_sibling") /\ last.a # 1 )
    => IF LaterSiblings(obj.bits, last.a) = {}
       THEN last.res = Err("NoSiblingError")
       ELSE /\ last.res.tag = "Ok"
            /\ last.res.val \in LaterSiblings(obj.bits, last.a)
            /\ \A c \in LaterSiblings(obj.bits, last.a) : last.res.val <= c

\* an is_leaf query on a LOUDS facade
LOUDSIsLeafQuery ==
    /\ obj.kind = "LOUDSTree"
    /\ last.op = "LOUDSTree::is_leaf"

\* the bit at position x is 0 and the bit before it is b
ZeroAfter(B, x, b) ==
    /\ x >= 1
    /\ x < Len(B)
    /\ Bit(B, x) = 0
    /\ Bit(B, x - 1) = b

C22_WitnessRunEnd ==
    /\ LOUDSIsLeafQuery
    /\ ZeroAfter(obj.bits, last.a, 1)
    /\ last.res = Err("NotANodeError")

EarlierSiblings(B, x) ==
    Cardinality({c \in RefChildren(B, RefParent(B, x)) : c < x})

\* C24: on a LOUDS facade child_rank(x) of a non-root node handle x, at any
\* depth, is the number of children of the parent of x that come before x
\* (0 for a first child, degree(parent) - 1 for a last child), and
\* child_rank(1) is 0.
C24_LoudsChildRank ==
    LOUDSNodeQuery("LOUDSTree::child_rank")
    => IF last.a = 1 THEN last.res = Ok(0)
       ELSE last.res = Ok(EarlierSiblings(obj.bits, last.a))

\* the label of the node x of a LOUDS facade: labels are kept in level order
LevelLabelOf(t, x) == t.labels[LevelNumber(t.bits, x)]

\* a query on a node handle of a LOUDS facade built from a labelled tree:
\* one label for every node
LOUDSLabelQuery(op) ==
    /\ LOUDSNodeQuery(op)
    /\ 2 * Len(obj.labels) = Len(obj.bits)

\* C25: on a LOUDS facade built from a labelled tree, child_label(x) of a
\* node handle x is the label of the node x, the entry of the label sequence
\* at the level-order number of x, and a position labeled_child(p, l)
\* returns is a child of p whose label is l.
C25_LoudsLabels ==
    /\ LOUDSLabelQuery("LOUDSTree::child_label")
       => last.res = Ok(LevelLabelOf(obj, last.a))
    /\ ( LOUDSLabelQuery("LOUDSTree::labeled_child") /\ last.res.tag = "Ok" )
       => /\ last.res.val \in RefChildren(obj.bits, last.a)
          /\ LevelLabelOf(obj, last.res.val) = last.b

\* the positions of data block b of a sequence B cut into blocks of s bits
BlockPositions(B, s, b) == b * s .. Min2(b * s + s, Len(B)) - 1

\* the running excess at position j of block b, counted from the block start
BlockRunningExcess(B, s, b, j) == E(B, j) - E(B, b * s - 1)

\* the leaf of data block b
BlockLeaf(mm, b) == Node(mm.heap, Len(mm.heap) \div 2 + b)

\* C26: after MinMax::new(B, s) the leaf of every data block holds the
\* summary of its block counted from the block start: excess is the net
\* change over the block, min_excess and max_excess are the least and the
\* greatest running excess over the positions of the block,
\* number_min_excess is the number of positions attaining the least, and
\* bits_for_node is the number of bits of the block.
C26_LeafSummaries ==
    ( obj.kind = "MinMax" /\ last.op = "MinMax::new" ) =>
        \A b \in DataBlocks(obj.bits, obj.minmax.block_size) :
            LET B == obj.bits
                s == obj.minmax.block_size
                P == BlockPositions(B, s, b)
                leaf == BlockLeaf(obj.minmax, b)
                run(j) == BlockRunningExcess(B, s, b, j)
            IN  /\ P # {}
                /\ leaf.bits_for_node = Cardinality(P)
                /\ \A j \in P : j + 1 \notin P => leaf.excess = run(j)
                /\ \A j \in P : leaf.min_excess <= run(j)
                /\ \A j \in P : leaf.max_excess >= run(j)
                /\ \E j \in P : leaf.min_excess = run(j)
                /\ \E j \in P : leaf.max_excess = run(j)
                /\ leaf.number_min_excess
                      = Cardinality({j \in P : run(j) = leaf.min_excess})

\* C26 witness: a full block of four bits 1100, where the least excess 1 is
\* attained twice before the block goes down to 0, followed by an underfull
\* last block of three bits
C26_Witness ==
    /\ obj.kind = "MinMax"
    /\ last.op = "MinMax::new"
    /\ obj.minmax.block_size = 4
    /\ Len(obj.bits) = 7
    /\ \A j \in 0 .. 3 : Bit(obj.bits, j) = (IF j < 2 THEN 1 ELSE 0)
    /\ BlockLeaf(obj.minmax, 0) = set_values(0, 0, 1, 2, 4)
    /\ BlockLeaf(obj.minmax, 1).bits_for_node = 3

\* three data blocks, the last one of a single bit
C26_WitnessThreeBlocks ==
    /\ obj.kind = "MinMax"
    /\ last.op = "MinMax::new"
    /\ obj.minmax.block_size = 3
    /\ Len(obj.bits) = 7
    /\ BlockLeaf(obj.minmax, 2).bits_for_node = 1
    /\ BlockLeaf(obj.minmax, 1).number_min_excess = 2

\* C27: for every bit sequence and block size, MinMax::rank_1(i) and
\* MinMax::rank_0(i) of an index i < len(B) are the number of ones and the
\* number of zeros in B[0..=i] (0 when there is none), and for i >= len(B)
\* both are NotANodeError.
C27_RankCounts ==
    ( obj.kind = "MinMax" /\ last.op \in {"rank_1", "rank_0"} )
    => IF last.a >= Len(obj.bits) THEN last.res = Err("NotANodeError")
       ELSE IF last.op = "rank_1"
            THEN last.res = Ok(CountUpTo(obj.bits, 1, last.a))
            ELSE last.res = Ok(CountUpTo(obj.bits, 0, last.a))

\* a select query on a MinMax over a sequence satisfying the excess
\* invariant; b is the bit value asked for
SelectQuery(b) ==
    /\ obj.kind = "MinMax"
    /\ last.op = (IF b = 1 THEN "select_1" ELSE "select_0")
    /\ ExcessInvariant(obj.bits)

\* p is the position of the k-th bit equal to b
IsKth(B, b, k, p) ==
    /\ p \in 0 .. Len(B) - 1
    /\ Bit(B, p) = b
    /\ CountUpTo(B, b, p) = k

\* C28: on a balanced bit sequence, with any block size, select_1(k) and
\* select_0(k) return the position of the k-th one and of the k-th zero for
\* every k from 1 to their number, so the rank at the returned position is
\* k; for k = 0 and for k above that number they return an error.
C28_SelectFindsKth ==
    \A b \in {0, 1} :
        SelectQuery(b)
        => IF last.a >= 1 /\ last.a <= CountUpTo(obj.bits, b, Len(obj.bits) - 1)
           THEN last.res.tag = "Ok" /\ IsKth(obj.bits, b, last.a, last.res.val)
           ELSE last.res.tag \in NodeErrors

\* C29: bwd_search(i, d), and with it enclose, BPTree::parent and
\* BPTree::next_sibling, reaches a return for every bit sequence, block size,
\* index i < len(B) and offset d: no call is left in a loop that repeats
\* without changing anything.
C29_BwdSearchReturns ==
    last.op \in {"bwd_search", "enclose", "BPTree::parent", "BPTree::next_sibling"}
    => last.res # Hang

\* C30: for every non-empty reference tree, the sequence
\* LOUDSTree::from_id_tree writes satisfies the excess invariant, its inner
\* from_bitvec accepts it and from_id_tree returns the facade without
\* aborting; the sequence BPTree::from_id_tree writes, which it does not
\* validate, satisfies the invariant as well.
C30_FromIdTreeWritesValidSequence ==
    /\ ( last.op = "LOUDSTree::from_id_tree" /\ ~Tree_is_empty(last.arg) )
       => /\ ExcessInvariant(LOUDSTree_id_tree_bitvec(last.arg))
          /\ LOUDSTree_from_bitvec(LOUDSTree_id_tree_bitvec(last.arg)) = Ok(0)
          /\ last.res = Ok(0)
          /\ obj.kind = "LOUDSTree"
          /\ ExcessInvariant(obj.bits)
          /\ Len(obj.bits) = 2 * Cardinality(Tree_nodes(last.arg))
    /\ ( last.op = "BPTree::from_id_tree" /\ ~Tree_is_empty(last.arg) )
       => /\ last.res = Ok(0)
          /\ obj.kind = "BPTree"
          /\ ExcessInvariant(obj.bits)
          /\ Len(obj.bits) = 2 * Cardinality(Tree_nodes(last.arg))

\* C30 witness: a LOUDS facade built from a tree of four nodes whose root has
\* one child with two children
C30_Witness ==
    /\ last.op = "LOUDSTree::from_id_tree"
    /\ last.arg.parents = <<0, 1, 2, 2>>
    /\ last.res = Ok(0)
    /\ obj.kind = "LOUDSTree"
    /\ obj.bits = <<1, 1, 0, 1, 1, 0, 0, 0>>
    /\ ExcessInvariant(obj.bits)

\* C30 witness of the BP half: a root with three leaves
C30_WitnessBP ==
    /\ last.op = "BPTree::from_id_tree"
    /\ last.arg.parents = <<0, 1, 1, 1>>
    /\ last.res = Ok(0)
    /\ obj.kind = "BPTree"
    /\ obj.bits = <<1, 1, 0, 1, 0, 1, 0, 0>>
    /\ ExcessInvariant(obj.bits)

====
